---- MODULE Spec2Model ----
(***************************************************************************)
(* Write-intent bitmap of the md driver (src/bitmap.c): the two-level      *)
(* counter map with hijacked page slots, the storage pages with their      *)
(* DIRTY / PENDING / NEEDWRITE attributes, startwrite / endwrite, unplug,  *)
(* the daemon, the resync calls, load and resize.                          *)
(*                                                                         *)
(* Atomicity: a section of code that runs under counts.lock is one action; *)
(* bitmap_checkpage drops the lock around its allocation, so a section     *)
(* that has to allocate is two actions.  The loops of unplug and of the    *)
(* daemon that run without the lock take one action per storage page.      *)
(* A page write is submitted by write_page and lands on disk in a later    *)
(* action (IoComplete).  bitmap_start_sync, bitmap_close_sync and the      *)
(* counter copy of bitmap_resize are one action each, although their loops *)
(* take and release counts.lock once per counter.                          *)
(***************************************************************************)
EXTENDS Integers, Sequences, FiniteSets, TLC

\* ------------------------------------------------------------------------
\* Counter layout (bitmap.h is not part of the sources; values of spec 3).
\* ------------------------------------------------------------------------
COUNTER_BITS == 16
NEEDED_MASK == 2^(COUNTER_BITS - 1)
RESYNC_MASK == 2^(COUNTER_BITS - 2)
COUNTER_MAX == RESYNC_MASK - 2
COUNTER_BYTE_SHIFT == 1

COUNTER(x) == x % RESYNC_MASK
NEEDED(x) == (x \div NEEDED_MASK) % 2 = 1
RESYNC(x) == (x \div RESYNC_MASK) % 2 = 1
\* arithmetic of a bitmap_counter_t: 16 bits, wrapping
Wrap(x) == x % (2^COUNTER_BITS)

\* ------------------------------------------------------------------------
\* Geometry.  The page geometry is scaled down: a counter page holds
\* 2^PAGE_COUNTER_SHIFT counters and a storage page 2^PAGE_BIT_SHIFT bits,
\* of which the superblock takes the first SB_BITS of page 0.
\* ------------------------------------------------------------------------
PAGE_COUNTER_SHIFT == 2
PAGE_BIT_SHIFT == 2
SB_BITS == 2

PAGE_COUNTER_RATIO == 2^PAGE_COUNTER_SHIFT
PAGE_COUNTER_MASK == PAGE_COUNTER_RATIO - 1
PAGE_BITS == 2^PAGE_BIT_SHIFT

DivRoundUp(a, b) == (a + b - 1) \div b
Min(a, b) == IF a < b THEN a ELSE b

\* ------------------------------------------------------------------------
\* Bounds of the model.
\* ------------------------------------------------------------------------
InitChunks == 4
MaxBulkEnd == 2
\* PAGE_SIZE >> 9, scaled like the pages
PageSectors == 2

VARIABLES
    chunkshift,       \* counts.chunkshift
    chunks,           \* counts.chunks
    bp,               \* counts.bp[0 .. pages-1]
    missing_pages,    \* counts.missing_pages
    filemap,          \* bits set in the storage pages in memory (by chunk)
    filemap_attr,     \* per storage page: subset of {DIRTY, PENDING, NEEDWRITE}
    disk,             \* bits set in the image on disk (by chunk)
    io,               \* per storage page: the write in flight, or NoIo
    sb,               \* the superblock fields held in storage.sb_page
    disk_sb,          \* the superblock fields of the image on disk
    flags,            \* bitmap->flags: subset of {STALE, WRITE_ERROR}
    allclean,         \* bitmap->allclean
    need_sync,        \* bitmap->need_sync
    events_cleared,   \* bitmap->events_cleared
    behind_writes,    \* bitmap->behind_writes
    behind_writes_used,
    behind_peak,      \* the largest value behind_writes has risen to since
                      \* behind_writes_used was last reset (kept for the
                      \* high-water property)
    mddev,            \* what the bitmap reads of the array and its bitmap_info
    wr,               \* the writers: callers of startwrite / endwrite
    bulk,             \* further writes in flight on chunk 0 (anonymous callers)
    dm,               \* the daemon thread inside bitmap_daemon_work; ticks:
                      \* the passes it has completed, counted up to env.ticks
    up,               \* the caller of bitmap_unplug
    sy,               \* the caller of bitmap_load, bitmap_update_sb or
                      \* bitmap_flush
    super_lock,       \* this node holds the cluster lock of md_lock_super
    mutex,            \* who holds mddev->bitmap_info.mutex, or "none"
    freed,            \* bitmap_free has released the bitmap's memory
    res,              \* the dlm_lock_resource of each lock request
    env               \* what the callers and the allocator may do (fixed)

vars == <<chunkshift, chunks, bp, missing_pages, filemap, filemap_attr, disk, io,
          sb, disk_sb, flags, allclean, need_sync, events_cleared, behind_writes,
          behind_writes_used, behind_peak, mddev, wr, bulk, dm, up, sy,
          super_lock, mutex,
          freed, res, env>>

countsVars == <<chunkshift, chunks, bp, missing_pages, env>>
storeVars == <<filemap, filemap_attr, disk, io>>
behindVars == <<behind_writes, behind_writes_used, behind_peak>>
sbVars == <<sb, disk_sb>>
kernVars == <<super_lock, mutex, freed, res>>

\* the fields of bitmap_super_t that the bitmap keeps up to date
SbImage(events, cleared, state) ==
    [events |-> events, events_cleared |-> cleared, state |-> state]

\* bits, sb: the contents of the page when it was handed over; devs: the
\* member devices it was handed to (none for a bitmap file); ret: what
\* write_sb_page returned
NoIo ==
    [busy |-> FALSE, bits |-> {}, sb |-> SbImage(0, 0, {}), devs |-> {},
     ret |-> "ok"]

\* ------------------------------------------------------------------------
\* Page pool
\* ------------------------------------------------------------------------
\* A slot of counts.bp.  cells is what the map field holds: the counters of
\* the allocated page (alloc), else the two inline counters that overlay the
\* pointer itself (both zero when the pointer is NULL).
EmptySlot ==
    [hijacked |-> FALSE, alloc |-> FALSE, cells |-> <<0, 0>>,
     count |-> 0, pending |-> FALSE]

ZeroPage == [i \in 1..PAGE_COUNTER_RATIO |-> 0]

MapNonNull(s) == s.alloc \/ s.cells # <<0, 0>>

CounterPagesOf(nchunks) == DivRoundUp(nchunks, PAGE_COUNTER_RATIO)

PageOfChunk(chunk) == chunk \div PAGE_COUNTER_RATIO

\* bitmap_checkpage up to the allocation: 0, "EINVAL", "ENOENT" or "alloc"
\* (the lock is dropped and a page is being allocated)
CheckpageEntry(b, page, create) ==
    IF page \notin DOMAIN b THEN "EINVAL"
    ELSE IF b[page].hijacked THEN "ok"
    ELSE IF MapNonNull(b[page]) THEN "ok"
    ELSE IF ~create THEN "ENOENT"
    ELSE "alloc"

\* bitmap_checkpage that installs its page whoever came first
CheckpageInstall_Over(s, got) ==
    IF ~got
    THEN IF ~MapNonNull(s) THEN [s EXCEPT !.hijacked = TRUE] ELSE s
    ELSE [s EXCEPT !.alloc = TRUE, !.cells = ZeroPage]

\* bitmap_checkpage after the allocation returned (got: a page was obtained):
\* the slot and missing_pages afterwards
CheckpageInstall(s, got) ==
    IF ~got
    THEN IF ~MapNonNull(s) THEN [s EXCEPT !.hijacked = TRUE] ELSE s
    ELSE IF MapNonNull(s) \/ s.hijacked THEN s
    ELSE [s EXCEPT !.alloc = TRUE, !.cells = ZeroPage]

\* bitmap_checkpage calls kfree(mappage) (lines 84-88): somebody beat the
\* caller to the slot
CheckpageFrees(s, got) == got /\ (MapNonNull(s) \/ s.hijacked)

CheckpageMissing(s, got, missing) ==
    IF got /\ ~(MapNonNull(s) \/ s.hijacked) THEN missing - 1 ELSE missing

\* Fault: a hijacked slot keeps its flag when its count drops to zero.
CheckfreeSlot_KeepHijack(s) ==
    IF s.count # 0 \/ s.hijacked THEN s
    ELSE [s EXCEPT !.alloc = FALSE, !.cells = <<0, 0>>]

\* bitmap_checkfree
CheckfreeSlot(s) ==
    IF s.count # 0 THEN s
    ELSE IF s.hijacked THEN [s EXCEPT !.hijacked = FALSE, !.cells = <<0, 0>>]
    ELSE [s EXCEPT !.alloc = FALSE, !.cells = <<0, 0>>]

\* Fault: the page is released and missing_pages is not incremented.
CheckfreeMissing_Keep(s, missing) == missing

CheckfreeMissing(s, missing) ==
    IF s.count = 0 /\ ~s.hijacked THEN missing + 1 ELSE missing

\* Fault: bitmap_count_page that leaves the count as it is.
CountPage_Still(b, missing, cs, offset, inc) ==
    LET page == PageOfChunk(offset \div (2^cs))
    IN  <<[b EXCEPT ![page] = CheckfreeSlot(b[page])],
          CheckfreeMissing(b[page], missing)>>

\* bitmap_count_page: the pair <<bp, missing_pages>> afterwards
CountPage(b, missing, cs, offset, inc) ==
    LET page == PageOfChunk(offset \div (2^cs))
        s == [b[page] EXCEPT !.count = @ + inc]
    IN  <<[b EXCEPT ![page] = CheckfreeSlot(s)], CheckfreeMissing(s, missing)>>

\* bitmap_set_pending that leaves the hint as it is
SetPending_None(b, cs, offset) == b

\* bitmap_set_pending
SetPending(b, cs, offset) ==
    [b EXCEPT ![PageOfChunk(offset \div (2^cs))].pending = TRUE]

\* ------------------------------------------------------------------------
\* Counter map: bitmap_get_counter once bitmap_checkpage has returned
\* ------------------------------------------------------------------------
PageOff(chunk) == (chunk % PAGE_COUNTER_RATIO) * (2^COUNTER_BYTE_SHIFT)

CSize(s, cs) ==
    IF s.hijacked \/ ~MapNonNull(s)
    THEN 2^(cs + PAGE_COUNTER_SHIFT - 1)
    ELSE 2^cs

Blocks(s, cs, offset) == CSize(s, cs) - (offset % CSize(s, cs))

\* Fault: every chunk of a hijacked slot is given the low inline counter.
CellIndex_Low(s, chunk) ==
    IF s.hijacked THEN 1 ELSE (PageOff(chunk) \div (2^COUNTER_BYTE_SHIFT)) + 1

\* index into cells of the counter get_counter returns
CellIndex(s, chunk) ==
    IF s.hijacked
    THEN (IF PageOff(chunk) > PAGE_COUNTER_MASK THEN 2 ELSE 1)
    ELSE (PageOff(chunk) \div (2^COUNTER_BYTE_SHIFT)) + 1

GetCounter(b, cs, offset) ==
    LET chunk == offset \div (2^cs)
        s == b[PageOfChunk(chunk)]
    IN  s.cells[CellIndex(s, chunk)]

PutCounter(b, cs, offset, v) ==
    LET chunk == offset \div (2^cs)
        page == PageOfChunk(chunk)
    IN  [b EXCEPT ![page].cells[CellIndex(b[page], chunk)] = v]

\* ------------------------------------------------------------------------
\* Storage layer
\* ------------------------------------------------------------------------
DIRTY == "DIRTY"
PENDING == "PENDING"
NEEDWRITE == "NEEDWRITE"
STALE == "STALE"
WRITE_ERROR == "WRITE_ERROR"

\* bitmap_storage_alloc: the number of storage pages (a byte of the image is
\* scaled to one bit, like the pages)
StoragePagesOf(nchunks, with_super) ==
    DivRoundUp(nchunks + (IF with_super THEN SB_BITS ELSE 0), PAGE_BITS)

file_page_index(sb_page, chunk) ==
    (chunk + (IF sb_page THEN SB_BITS ELSE 0)) \div PAGE_BITS

file_page_offset(sb_page, chunk) ==
    (chunk + (IF sb_page THEN SB_BITS ELSE 0)) % PAGE_BITS

HasSb == ~mddev.external

\* the chunks whose bit lies on storage page p
PageChunks(attr, p) ==
    {c \in 0..(Cardinality(DOMAIN attr) * PAGE_BITS) : file_page_index(HasSb, c) = p}

\* bitmap_file_set_bit: the pair <<filemap, filemap_attr>> afterwards
FileSetBit(fm, attr, cs, block) ==
    LET chunk == block \div (2^cs)
        p == file_page_index(HasSb, chunk)
    IN  IF p \notin DOMAIN attr THEN <<fm, attr>>
        ELSE <<fm \cup {chunk}, [attr EXCEPT ![p] = @ \cup {DIRTY}]>>

\* Fault: the bit is cleared and the page is not marked PENDING.
FileClearBit_NoPending(fm, attr, ac, cs, block) ==
    <<fm \ {block \div (2^cs)}, attr, ac>>

\* bitmap_file_clear_bit: <<filemap, filemap_attr, allclean>> afterwards
FileClearBit(fm, attr, ac, cs, block) ==
    LET chunk == block \div (2^cs)
        p == file_page_index(HasSb, chunk)
    IN  IF p \notin DOMAIN attr THEN <<fm, attr, ac>>
        ELSE IF NEEDWRITE \notin attr[p]
        THEN <<fm \ {chunk}, [attr EXCEPT ![p] = @ \cup {PENDING}], FALSE>>
        ELSE <<fm \ {chunk}, attr, ac>>

\* write_sb_page, lines 205-211: the sectors written of storage page index;
\* the logical block of a member is one sector
SbPageSectors(index) ==
    LET bits == chunks + (IF HasSb THEN SB_BITS ELSE 0)
        last == IF bits % PAGE_BITS = 0 THEN PAGE_BITS ELSE bits % PAGE_BITS
    IN  IF index = StoragePagesOf(chunks, HasSb) - 1
        THEN DivRoundUp(last, PAGE_BITS \div PageSectors)
        ELSE PageSectors

\* write_sb_page, lines 215-247: the page would run into the data or the
\* metadata of member rdev
BadAlignment(md, rdev, index, size) ==
    IF md.external
    THEN /\ rdev.sb_start + md.offset + index * PageSectors > rdev.data_offset
         /\ rdev.sb_start + md.offset
              < rdev.data_offset + md.dev_sectors + PageSectors
    ELSE IF md.offset < 0
    THEN IF md.offset + index * PageSectors + size > 0 THEN TRUE
         ELSE rdev.data_offset + md.dev_sectors > rdev.sb_start + md.offset
    ELSE IF rdev.sb_start < rdev.data_offset
    THEN rdev.sb_start + md.offset + index * PageSectors + size
            > rdev.data_offset
    ELSE FALSE

\* the loop of write_sb_page over the active members from member k on
\* (lines 201-253): devs: the members md_super_write was called for
RECURSIVE WriteSbLoop(_, _, _, _)
WriteSbLoop(md, k, index, devs) ==
    IF k > Len(md.rdevs) THEN [ret |-> "ok", devs |-> devs]
    ELSE IF ~md.rdevs[k].active THEN WriteSbLoop(md, k + 1, index, devs)
    ELSE IF BadAlignment(md, md.rdevs[k], index, SbPageSectors(index))
    THEN [ret |-> "EINVAL", devs |-> devs]
    ELSE WriteSbLoop(md, k + 1, index, devs \cup {k})

\* write_sb_page: lk is what md_lock_super returns
WriteSbPage(index, lk) ==
    IF lk # "ok" THEN [ret |-> lk, devs |-> {}]
    ELSE WriteSbLoop(mddev, 1, index, {})

\* what the transport is given by write_page for page p: the buffers of a
\* bitmap file, or write_sb_page's writes to the members
WriteSent(p, lk) ==
    IF mddev.file THEN [ret |-> "ok", devs |-> {}] ELSE WriteSbPage(p, lk)

\* write_page / write_sb_page handing a page to the transport: the page's
\* contents are captured; a write of the same page still in flight is taken
\* to have landed first
Submit(iov, fm, attr, sbp, p, lk) ==
    LET w == WriteSent(p, lk)
    IN  IF ~mddev.file /\ w.devs = {} THEN iov
        ELSE [iov EXCEPT ![p] =
                 [busy |-> TRUE, bits |-> fm \cap PageChunks(attr, p),
                  sb |-> IF p = 0 /\ HasSb THEN sbp ELSE NoIo.sb,
                  devs |-> w.devs, ret |-> w.ret]]

\* write_page, lines 275-278: the flags after write_sb_page has returned
WriteError(fl, p, lk) ==
    IF WriteSent(p, lk).ret = "EINVAL" THEN fl \cup {WRITE_ERROR} ELSE fl

\* Fault: the daemon and bitmap_load do not take bitmap_info.mutex.
MutexFree_NoMutex == TRUE

\* mutex_lock(&mddev->bitmap_info.mutex) can be taken
MutexFree == mutex = "none"

\* Fault: the wait for the writes in flight returns at once.
IoIdle_NoWait == TRUE

IoIdle == \A p \in DOMAIN io : ~io[p].busy

\* the outcomes of a block write of the bitmap file (end_bitmap_write's
\* uptodate); writes to the member devices are carried by the array
IoOutcomes == IF mddev.file THEN {TRUE, FALSE} ELSE {TRUE}

\* read_sb_page reads the image from the first usable member
RECURSIVE ReadMember(_, _)
ReadMember(md, k) ==
    IF k > Len(md.rdevs) THEN 0
    ELSE IF md.rdevs[k].active THEN k
    ELSE ReadMember(md, k + 1)

\* A write in flight completes.  end_bitmap_write: a failure sets WRITE_ERROR.
\* disk, disk_sb: the image of the file, or of the member that is read
IoComplete(p) ==
    /\ io[p].busy
    /\ \E uptodate \in IoOutcomes :
         LET lands == uptodate /\ (mddev.file \/ ReadMember(mddev, 1) \in io[p].devs)
         IN  /\ disk' = (IF lands
                         THEN (disk \ PageChunks(filemap_attr, p)) \cup io[p].bits
                         ELSE disk)
             /\ disk_sb' = (IF lands /\ p = 0 /\ HasSb THEN io[p].sb ELSE disk_sb)
             /\ flags' = (IF uptodate THEN flags ELSE flags \cup {WRITE_ERROR})
    /\ io' = [io EXCEPT ![p] = NoIo]
    /\ UNCHANGED <<countsVars, filemap, filemap_attr, allclean, need_sync,
                   events_cleared, behindVars, mddev, sy, wr, bulk, dm, up, sb,
                   kernVars>>

\* bitmap_update_sb, lines 418-431: <<the superblock fields, events_cleared>>
\* afterwards (fl: bitmap->flags)
UpdateSbFields(sbp, ec, fl) ==
    IF ~HasSb THEN <<sbp, ec>>
    ELSE LET ec1 == IF mddev.events < ec THEN mddev.events ELSE ec
         IN  <<SbImage(mddev.events, ec1, fl), ec1>>

\* The state a page write works on: the writes in flight, bitmap->flags, the
\* superblock fields and events_cleared; wait: the caller is left inside
\* bitmap_update_sb's write_page(sb_page, 1), waiting for the writes in flight
WriteState(iov, fl, sbp, ec) ==
    [io |-> iov, flags |-> fl, sb |-> sbp, events_cleared |-> ec, wait |-> FALSE]

\* bitmap_update_sb, lines 444-449, on the superblock fields of st: without
\* the cluster lock (lk: what md_lock_super returns) nothing is written;
\* with it write_page(sb_page, 1) hands the page over and waits, the lock
\* held, for the writes in flight
UpdateSbWrite(st, fm, attr, lk) ==
    IF lk # "ok" THEN [st EXCEPT !.wait = FALSE]
    ELSE [st EXCEPT !.io = Submit(st.io, fm, attr, st.sb, 0, lk),
                    !.flags = WriteError(st.flags, 0, lk),
                    !.wait = WriteSent(0, lk).ret = "ok"]

\* bitmap_file_kick (lines 840-863): the first kick sets STALE and has
\* bitmap_update_sb rewrite the superblock with write_page(sb_page, 1)
Kick(st, fm, attr, lk) ==
    IF STALE \in st.flags THEN st
    ELSE LET fl == st.flags \cup {STALE}
             u == UpdateSbFields(st.sb, st.events_cleared, fl)
         IN  IF ~HasSb THEN [st EXCEPT !.flags = fl]
             ELSE UpdateSbWrite([io |-> st.io, flags |-> fl, sb |-> u[1],
                                 events_cleared |-> u[2], wait |-> FALSE],
                                fm, attr, lk)

\* write_page(page, 0) (lines 270-297): the page is handed over and a
\* WRITE_ERROR, old or new, kicks the bitmap.  lks: what md_lock_super
\* returns to write_sb_page for the page and for the superblock
WritePage(st, fm, attr, p, lks) ==
    LET st1 == [st EXCEPT !.io = Submit(st.io, fm, attr, st.sb, p, lks[1]),
                          !.flags = WriteError(st.flags, p, lks[1])]
    IN  IF WRITE_ERROR \in st1.flags THEN Kick(st1, fm, attr, lks[2]) ELSE st1

\* ------------------------------------------------------------------------
\* bitmap_startwrite / bitmap_endwrite
\* ------------------------------------------------------------------------
\* bw: bitmap_startwrite's local bw
IdleWriter ==
    [pc |-> "idle", r |-> <<0, 0>>, off |-> 0, sec |-> 0, behind |-> FALSE,
     woken |-> FALSE, safe |-> FALSE, success |-> FALSE, bw |-> 0]

\* the chunks a range covers
RangeChunks(r, cs) == {c \in 0..((r[1] + r[2] - 1) \div (2^cs)) : c >= r[1] \div (2^cs)}

\* startwrite's entry: the write-behind accounting (lines 1341-1350); no
\* write is begun while the array is quiesced for bitmap_resize or bitmap_load
StartwriteBegin(w) ==
    /\ wr[w].pc = "idle"
    /\ ~up.quiesce
    /\ sy.pc \in {"idle", "updsb"}
    /\ \E r \in env.ranges, behind \in env.behind :
         /\ wr' = [wr EXCEPT ![w] = [IdleWriter EXCEPT !.pc = "sw", !.r = r,
                                        !.off = r[1], !.sec = r[2],
                                        !.behind = behind]]
         /\ behind_writes' = (IF behind THEN behind_writes + 1 ELSE behind_writes)
         /\ behind_writes_used' =
              (IF behind /\ behind_writes + 1 > behind_writes_used
               THEN behind_writes + 1 ELSE behind_writes_used)
         /\ behind_peak' =
              (IF behind /\ behind_writes + 1 > behind_peak
               THEN behind_writes + 1 ELSE behind_peak)
    /\ UNCHANGED <<countsVars, storeVars, flags, allclean, need_sync,
                   events_cleared, mddev, sy, bulk, dm, up, sbVars,
                   kernVars>>

\* Fault: the increment after a step from 0 to 1 instead of 2.
StartwriteCounter_LowFloor(c) == Wrap((IF c = 0 THEN 1 ELSE c) + 1)

\* Fault: the increment without the step from 0 or 1 to 2.
StartwriteCounter_NoFloor(c) == Wrap(c + 1)

\* The increment of lines 1377-1386 on counter value c: the value stored
StartwriteCounter(c) == Wrap((IF c = 0 \/ c = 1 THEN 2 ELSE c) + 1)

\* Fault: the test for a full counter never fires.
Saturated_Never(c) == FALSE

\* Fault: the test for a full counter is off by one.
Saturated_Late(c) == COUNTER(c) = COUNTER_MAX + 1

\* startwrite's test for a full counter (line 1363)
Saturated(c) == COUNTER(c) = COUNTER_MAX

\* One pass of startwrite's loop from get_counter's return on (lines
\* 1358-1394), on the page pool b / missing that bitmap_checkpage left.
StartwriteBody(w, b, missing) ==
    LET off == wr[w].off
        sec == wr[w].sec
        page == PageOfChunk(off \div (2^chunkshift))
    IN  IF page \notin DOMAIN b
        THEN \* get_counter returned NULL: return 0
             /\ wr' = [wr EXCEPT ![w].pc = "flying", ![w].sec = 0]
             /\ bp' = b /\ missing_pages' = missing
             /\ UNCHANGED <<filemap, filemap_attr>>
        ELSE LET s == b[page]
                 blocks == Blocks(s, chunkshift, off)
                 c == GetCounter(b, chunkshift, off)
                 cp == IF c = 0 THEN CountPage(b, missing, chunkshift, off, 1)
                       ELSE <<b, missing>>
                 fs == IF c = 0
                       THEN FileSetBit(filemap, filemap_attr, chunkshift, off)
                       ELSE <<filemap, filemap_attr>>
                 left == IF sec > blocks THEN sec - blocks ELSE 0
             IN  IF Saturated(c)
                 THEN \* prepare_to_wait under the lock, then schedule()
                      /\ wr' = [wr EXCEPT ![w].pc = "wait", ![w].woken = FALSE]
                      /\ bp' = b /\ missing_pages' = missing
                      /\ UNCHANGED <<filemap, filemap_attr>>
                 ELSE /\ bp' = PutCounter(cp[1], chunkshift, off,
                                          StartwriteCounter(c))
                      /\ missing_pages' = cp[2]
                      /\ filemap' = fs[1]
                      /\ filemap_attr' = fs[2]
                      /\ wr' = [wr EXCEPT ![w].off = off + blocks,
                                          ![w].sec = left,
                                          ![w].pc = IF left = 0 THEN "flying"
                                                    ELSE "sw"]

\* A pass of the loop whose bitmap_checkpage does not allocate.
StartwriteStep(w) ==
    /\ wr[w].pc = "sw"
    /\ CheckpageEntry(bp, PageOfChunk(wr[w].off \div (2^chunkshift)), TRUE) # "alloc"
    /\ StartwriteBody(w, bp, missing_pages)
    /\ UNCHANGED <<chunkshift, chunks, env, disk, io, flags, allclean, need_sync,
                   events_cleared, behindVars, mddev, sy, bulk, dm, up, sbVars,
                   kernVars>>

\* bitmap_checkpage drops counts.lock to allocate (line 74).
StartwriteUnlock(w) ==
    /\ wr[w].pc = "sw"
    /\ CheckpageEntry(bp, PageOfChunk(wr[w].off \div (2^chunkshift)), TRUE) = "alloc"
    /\ wr' = [wr EXCEPT ![w].pc = "alloc"]
    /\ UNCHANGED <<countsVars, storeVars, flags, allclean, need_sync,
                   events_cleared, behindVars, mddev, sy, bulk, dm, up, sbVars,
                   kernVars>>

\* The allocation returns, the lock is retaken (lines 76-96) and the pass
\* goes on.
StartwriteAlloc(w) ==
    /\ wr[w].pc = "alloc"
    /\ \E got \in env.alloc :
         LET page == PageOfChunk(wr[w].off \div (2^chunkshift))
             b == [bp EXCEPT ![page] = CheckpageInstall(bp[page], got)]
             missing == CheckpageMissing(bp[page], got, missing_pages)
         IN  StartwriteBody(w, b, missing)
    /\ UNCHANGED <<chunkshift, chunks, env, disk, io, flags, allclean, need_sync,
                   events_cleared, behindVars, mddev, sy, bulk, dm, up, sbVars,
                   kernVars>>

\* schedule() returns once wake_up(&overflow_wait) has run; finish_wait;
\* continue (lines 1372-1374)
StartwriteWake(w) ==
    /\ wr[w].pc = "wait"
    /\ wr[w].woken
    /\ wr' = [wr EXCEPT ![w].pc = "sw", ![w].woken = FALSE]
    /\ UNCHANGED <<countsVars, storeVars, flags, allclean, need_sync,
                   events_cleared, behindVars, mddev, sy, bulk, dm, up, sbVars,
                   kernVars>>

\* Fault: the wake-up reaches no task.
WakeOverflow_None(W) == W

\* wake_up(&bitmap->overflow_wait): every task on the queue is made runnable
WakeOverflow(W) ==
    [w \in DOMAIN W |-> IF W[w].pc = "wait" THEN [W[w] EXCEPT !.woken = TRUE]
                        ELSE W[w]]

\* endwrite's entry: the write-behind accounting (lines 1405-1411)
EndwriteBegin(w) ==
    /\ wr[w].pc = "data"
    /\ \E success \in env.success :
         wr' = [wr EXCEPT ![w].pc = "ew", ![w].off = wr[w].r[1],
                          ![w].sec = wr[w].r[2], ![w].success = success,
                          ![w].safe = FALSE]
    /\ behind_writes' = (IF wr[w].behind THEN behind_writes - 1 ELSE behind_writes)
    /\ UNCHANGED <<countsVars, storeVars, flags, allclean, need_sync,
                   events_cleared, behind_writes_used, behind_peak, mddev, sy,
                   bulk, dm, up, sbVars, kernVars>>

\* endwrite's counter without the mark of a failed write
EndwriteCounter_NoMark(c, success) ==
    Wrap(c + (2^COUNTER_BITS) - 1)

\* The counter endwrite stores (lines 1432-1438) for counter value c
EndwriteCounter(c, success) ==
    Wrap((IF ~success /\ ~NEEDED(c) THEN c + NEEDED_MASK ELSE c) + (2^COUNTER_BITS) - 1)

\* One pass of endwrite's loop (lines 1418-1448) for a call at offset off
\* with sec sectors left: <<bp, allclean, need_sync, events_cleared, wake,
\* off, sec>> afterwards; a NULL counter ends the call (sec = 0).
EndwriteBody(b, off, sec, success) ==
    LET page == PageOfChunk(off \div (2^chunkshift))
    IN  IF CheckpageEntry(b, page, FALSE) # "ok"
        THEN <<b, allclean, need_sync, events_cleared, FALSE, off, 0>>
        ELSE LET s == b[page]
                 blocks == Blocks(s, chunkshift, off)
                 c == GetCounter(b, chunkshift, off)
                 adopt == success /\ ~mddev.degraded /\ events_cleared < mddev.events
                 marked == IF ~success /\ ~NEEDED(c) THEN c + NEEDED_MASK ELSE c
                 c2 == EndwriteCounter(c, success)
                 b2 == PutCounter(b, chunkshift, off, c2)
             IN  <<(IF c2 <= 2 THEN SetPending(b2, chunkshift, off) ELSE b2),
                   (IF c2 <= 2 THEN FALSE ELSE allclean),
                   (IF adopt THEN TRUE ELSE need_sync),
                   (IF adopt THEN mddev.events ELSE events_cleared),
                   COUNTER(marked) = COUNTER_MAX,
                   off + blocks,
                   (IF sec > blocks THEN sec - blocks ELSE 0)>>

EndwriteStep(w) ==
    /\ wr[w].pc = "ew"
    /\ LET e == EndwriteBody(bp, wr[w].off, wr[w].sec, wr[w].success)
           W == IF e[5] THEN WakeOverflow(wr) ELSE wr
       IN  /\ bp' = e[1]
           /\ allclean' = e[2]
           /\ need_sync' = e[3]
           /\ events_cleared' = e[4]
           /\ wr' = [W EXCEPT ![w] = IF e[7] = 0 THEN IdleWriter
                                     ELSE [W[w] EXCEPT !.off = e[6], !.sec = e[7]]]
    /\ UNCHANGED <<chunkshift, chunks, env, missing_pages, storeVars, flags,
                   behindVars, mddev, sy, bulk, dm, up, sbVars,
                   kernVars>>

\* endwrite(0, 1 chunk, success, behind = 0) of one of the anonymous writes
\* in flight on chunk 0
EndwriteBulk ==
    /\ bulk > 0
    /\ bulk > COUNTER_MAX - 2 - MaxBulkEnd
    /\ \E success \in env.success :
         LET e == EndwriteBody(bp, 0, 1, success)
         IN  /\ bp' = e[1]
             /\ allclean' = e[2]
             /\ need_sync' = e[3]
             /\ events_cleared' = e[4]
             /\ wr' = (IF e[5] THEN WakeOverflow(wr) ELSE wr)
    /\ bulk' = bulk - 1
    /\ UNCHANGED <<chunkshift, chunks, env, missing_pages, storeVars, flags,
                   behindVars, mddev, sy, dm, up, sbVars, kernVars>>

\* ------------------------------------------------------------------------
\* bitmap_unplug
\* ------------------------------------------------------------------------
\* The writers whose startwrite has returned wait for an unplug before they
\* start their data write: "flying" until an unplug begins, "plugged" while
\* it runs, "data" once it has returned (safe: it returned with the bitmap
\* not STALE).
PlugWriters(W) ==
    [w \in DOMAIN W |-> IF W[w].pc = "flying" THEN [W[w] EXCEPT !.pc = "plugged"]
                        ELSE W[w]]

ReleaseWriters(W, from, safe) ==
    [w \in DOMAIN W |-> IF W[w].pc = from
                        THEN [W[w] EXCEPT !.pc = "data", !.safe = safe]
                        ELSE W[w]]

\* sets / clrs: the chunks whose bit was set / cleared in the storage pages
\* and not on disk when the call began (kept for the flush properties)
\* quiesce: the call is the one bitmap_resize makes with the array quiesced
IdleUnplug ==
    [pc |-> "idle", i |-> 0, wait |-> FALSE, sets |-> {}, clrs |-> {},
     quiesce |-> FALSE]

\* lines 959-961
UnplugStart ==
    /\ up.pc = "idle"
    /\ IF STALE \in flags
       THEN /\ wr' = ReleaseWriters(wr, "flying", FALSE)
            /\ up' = up
       ELSE /\ wr' = PlugWriters(wr)
            /\ up' = [pc |-> "loop", i |-> 0, wait |-> FALSE,
                      sets |-> filemap \ disk, clrs |-> disk \ filemap,
                      quiesce |-> FALSE]
    /\ UNCHANGED <<countsVars, storeVars, flags, allclean, need_sync,
                   events_cleared, behindVars, mddev, sy, bulk, dm, sbVars,
                   kernVars>>

\* one pass of the loop of lines 965-977
UnplugPage ==
    /\ up.pc = "loop"
    /\ up.i \in DOMAIN filemap_attr
    /\ LET i == up.i
           dirty == DIRTY \in filemap_attr[i]
           need_write == NEEDWRITE \in filemap_attr[i]
           attr == [filemap_attr EXCEPT ![i] =
                       IF dirty \/ need_write THEN {} ELSE @]
           st == WriteState(io, flags, sb, events_cleared)
       IN  /\ filemap_attr' = attr
           /\ \E lks \in env.locks \X env.locks :
                LET wp == IF dirty \/ need_write
                          THEN WritePage(st, filemap, attr, i, lks) ELSE st
                IN  /\ io' = wp.io
                    /\ flags' = wp.flags
                    /\ sb' = wp.sb
                    /\ events_cleared' = wp.events_cleared
                    /\ super_lock' = wp.wait
                    /\ up' = [up EXCEPT
                                 !.pc = IF wp.wait THEN "kick" ELSE "loop",
                                 !.i = i + 1, !.wait = up.wait \/ dirty]
    /\ UNCHANGED <<countsVars, filemap, disk, disk_sb, allclean, need_sync,
                   behindVars, mddev, sy, wr, bulk, dm, mutex, freed, res>>

\* the wait of lines 978-984, the test of WRITE_ERROR of lines 985-986, and
\* the return
UnplugFinish ==
    /\ up.pc = "loop"
    /\ up.i \notin DOMAIN filemap_attr
    /\ up.wait => IoIdle
    /\ IF WRITE_ERROR \in flags
       THEN \E lk \in env.locks :
              LET k == Kick(WriteState(io, flags, sb, events_cleared),
                            filemap, filemap_attr, lk)
              IN  /\ io' = k.io
                  /\ flags' = k.flags
                  /\ sb' = k.sb
                  /\ events_cleared' = k.events_cleared
                  /\ super_lock' = k.wait
                  /\ up' = (IF k.wait THEN [up EXCEPT !.pc = "kickret"]
                            ELSE IdleUnplug)
                  /\ wr' = (IF k.wait THEN wr
                            ELSE ReleaseWriters(wr, "plugged", FALSE))
       ELSE /\ wr' = ReleaseWriters(wr, "plugged", STALE \notin flags)
            /\ up' = IdleUnplug
            /\ UNCHANGED <<flags, io, sb, events_cleared, super_lock>>
    /\ UNCHANGED <<countsVars, filemap, filemap_attr, disk, disk_sb, allclean,
                   need_sync, behindVars, mddev, sy, bulk, dm,
                   mutex, freed, res>>

\* bitmap_file_kick -> bitmap_update_sb -> write_page(sb_page, 1): the wait
\* for the writes in flight (lines 291-293, 256-257)
UnplugKickWait ==
    /\ up.pc \in {"kick", "kickret"}
    /\ IoIdle
    /\ IF up.pc = "kick"
       THEN /\ up' = [up EXCEPT !.pc = "loop"]
            /\ wr' = wr
       ELSE /\ up' = IdleUnplug
            /\ wr' = ReleaseWriters(wr, "plugged", FALSE)
    /\ super_lock' = FALSE
    /\ UNCHANGED <<countsVars, storeVars, flags, allclean, need_sync,
                   events_cleared, behindVars, mddev, sy, bulk, dm, sbVars,
                   mutex, freed, res>>

\* ------------------------------------------------------------------------
\* bitmap_daemon_work
\* ------------------------------------------------------------------------
\* The scan of the counters, lines 1229-1262, from chunk j on; st holds the
\* page pool, missing_pages, the storage bits and attributes and allclean.
RECURSIVE DaemonScan(_, _, _)
DaemonScan(j, nextpage, st) ==
    IF j >= chunks THEN st
    ELSE
    LET page == j \div PAGE_COUNTER_RATIO
        block == j * (2^chunkshift)
        first == (j = nextpage)
        np == IF first THEN nextpage + PAGE_COUNTER_RATIO ELSE nextpage
        skip == page * PAGE_COUNTER_RATIO + PAGE_COUNTER_MASK + 1
        b1 == IF first THEN [st.bp EXCEPT ![page].pending = FALSE] ELSE st.bp
    IN  IF first /\ ~st.bp[page].pending THEN DaemonScan(skip, np, st)
        ELSE IF CheckpageEntry(b1, page, FALSE) # "ok"
        THEN DaemonScan(skip, np, [st EXCEPT !.bp = b1])
        ELSE
        LET c == GetCounter(b1, chunkshift, block)
        IN  IF c = 1 /\ ~need_sync
            THEN LET cp == CountPage(PutCounter(b1, chunkshift, block, 0),
                                     st.missing, chunkshift, block, -1)
                     fc == FileClearBit(st.fm, st.attr, st.ac, chunkshift, block)
                 IN  DaemonScan(j + 1, np,
                                [bp |-> cp[1], missing |-> cp[2], fm |-> fc[1],
                                 attr |-> fc[2], ac |-> fc[3]])
            ELSE IF c # 0 /\ c <= 2
            THEN DaemonScan(j + 1, np,
                            [st EXCEPT !.bp = SetPending(
                                           PutCounter(b1, chunkshift, block, 1),
                                           chunkshift, block),
                                       !.ac = FALSE])
            ELSE DaemonScan(j + 1, np, [st EXCEPT !.bp = b1])

\* lines 1183-1198: the daemon's turn has come (daemon_sleep has passed)
DaemonStart ==
    /\ dm.pc = "idle"
    /\ MutexFree
    /\ IF ~mddev.bitmap
       THEN UNCHANGED <<dm, allclean, mutex>>
       ELSE IF allclean
       THEN /\ dm' = [dm EXCEPT !.timeout = "forever"]
            /\ allclean' = allclean
            /\ mutex' = mutex
       ELSE /\ dm' = [dm EXCEPT !.pc = "promote", !.j = 0]
            /\ allclean' = TRUE
            /\ mutex' = "daemon"
    /\ UNCHANGED <<countsVars, storeVars, flags, need_sync, events_cleared,
                   behindVars, mddev, sy, wr, bulk, up, sbVars,
                   super_lock, freed, res>>

\* one pass of the loop of lines 1204-1208
DaemonPromote ==
    /\ dm.pc = "promote"
    /\ dm.j \in DOMAIN filemap_attr
    /\ filemap_attr' = [filemap_attr EXCEPT ![dm.j] =
                           IF PENDING \in @ THEN (@ \ {PENDING}) \cup {NEEDWRITE}
                           ELSE @]
    /\ dm' = [dm EXCEPT !.j = @ + 1]
    /\ UNCHANGED <<countsVars, filemap, disk, io, flags, allclean, need_sync,
                   events_cleared, behindVars, mddev, sy, wr, bulk, up, sbVars,
                   kernVars>>

\* the daemon that clears need_sync with external metadata too
DaemonNeedSync_External ==
    /\ dm.pc = "promote"
    /\ dm.j \notin DOMAIN filemap_attr
    /\ IF need_sync
       THEN /\ need_sync' = FALSE
            /\ sb' = [sb EXCEPT !.events_cleared = events_cleared]
            /\ filemap_attr' = [filemap_attr EXCEPT ![0] = @ \cup {NEEDWRITE}]
       ELSE UNCHANGED <<need_sync, sb, filemap_attr>>
    /\ dm' = [dm EXCEPT !.pc = "scan"]
    /\ UNCHANGED <<countsVars, filemap, disk, disk_sb, io, flags, allclean,
                   events_cleared, behindVars, mddev, sy, wr, bulk, up,
                   kernVars>>

\* lines 1210-1224
DaemonNeedSync ==
    /\ dm.pc = "promote"
    /\ dm.j \notin DOMAIN filemap_attr
    /\ IF need_sync /\ ~mddev.external
       THEN /\ need_sync' = FALSE
            /\ sb' = [sb EXCEPT !.events_cleared = events_cleared]
            /\ filemap_attr' = [filemap_attr EXCEPT ![0] = @ \cup {NEEDWRITE}]
       ELSE UNCHANGED <<need_sync, sb, filemap_attr>>
    /\ dm' = [dm EXCEPT !.pc = "scan"]
    /\ UNCHANGED <<countsVars, filemap, disk, disk_sb, io, flags, allclean,
                   events_cleared, behindVars, mddev, sy, wr, bulk, up,
                   kernVars>>

\* lines 1228-1262, under counts.lock
DaemonCounters ==
    /\ dm.pc = "scan"
    /\ LET st == DaemonScan(0, 0, [bp |-> bp, missing |-> missing_pages,
                                   fm |-> filemap, attr |-> filemap_attr,
                                   ac |-> allclean])
       IN  /\ bp' = st.bp
           /\ missing_pages' = st.missing
           /\ filemap' = st.fm
           /\ filemap_attr' = st.attr
           /\ allclean' = st.ac
    /\ dm' = [dm EXCEPT !.pc = "writeout", !.j = 0]
    /\ UNCHANGED <<chunkshift, chunks, env, disk, io, flags, need_sync,
                   events_cleared, behindVars, mddev, sy, wr, bulk, up, sbVars,
                   kernVars>>

\* the writeout loop stops (lines 1272-1280); done: (lines 1287-1291)
DaemonWriteoutStops ==
    IF dm.j \notin DOMAIN filemap_attr THEN TRUE
    ELSE IF STALE \in flags THEN TRUE
    ELSE DIRTY \in filemap_attr[dm.j]

\* one pass of the loop of lines 1272-1285
DaemonWriteout ==
    /\ dm.pc = "writeout"
    /\ ~DaemonWriteoutStops
    /\ LET j == dm.j
           need_write == NEEDWRITE \in filemap_attr[j]
           attr == [filemap_attr EXCEPT ![j] = @ \ {NEEDWRITE}]
           st == WriteState(io, flags, sb, events_cleared)
       IN  /\ filemap_attr' = attr
           /\ \E lks \in env.locks \X env.locks :
                LET wp == IF need_write
                          THEN WritePage(st, filemap, attr, j, lks) ELSE st
                IN  /\ io' = wp.io
                    /\ flags' = wp.flags
                    /\ sb' = wp.sb
                    /\ events_cleared' = wp.events_cleared
                    /\ super_lock' = wp.wait
                    /\ dm' = [dm EXCEPT
                                 !.pc = IF wp.wait THEN "kick" ELSE "writeout",
                                 !.j = j + 1]
    /\ UNCHANGED <<countsVars, filemap, disk, disk_sb, allclean, need_sync,
                   behindVars, mddev, sy, wr, bulk, up, mutex, freed, res>>

\* bitmap_file_kick -> bitmap_update_sb -> write_page(sb_page, 1)
DaemonKickWait ==
    /\ dm.pc = "kick"
    /\ IoIdle
    /\ super_lock' = FALSE
    /\ dm' = [dm EXCEPT !.pc = "writeout"]
    /\ UNCHANGED <<countsVars, storeVars, flags, allclean, need_sync,
                   events_cleared, behindVars, mddev, sy, wr, bulk, up, sbVars,
                   mutex, freed, res>>

DaemonDone ==
    /\ dm.pc = "writeout"
    /\ DaemonWriteoutStops
    /\ dm' = [pc |-> "idle", j |-> 0,
              timeout |-> IF ~allclean THEN "daemon_sleep" ELSE dm.timeout,
              ticks |-> Min(dm.ticks + 1, env.ticks)]
    /\ mutex' = "none"
    /\ UNCHANGED <<countsVars, storeVars, flags, allclean, need_sync,
                   events_cleared, behindVars, mddev, sy, wr, bulk, up, sbVars,
                   super_lock, freed, res>>

\* ------------------------------------------------------------------------
\* bitmap_resize(bitmap, blocks, chunksize, init = 0) with chunksize given
\* ------------------------------------------------------------------------
\* bitmap_checkpage(create = 1) with the lock held by the only thread that
\* runs: <<bp, missing_pages>> afterwards; got[page]: the allocation succeeds
EnsurePage(b, missing, page, got) ==
    IF CheckpageEntry(b, page, TRUE) = "alloc"
    THEN <<[b EXCEPT ![page] = CheckpageInstall(b[page], got[page])],
           CheckpageMissing(b[page], got[page], missing)>>
    ELSE <<b, missing>>

\* The loop of lines 2141-2172 from block on.  ob, ocs: the old counters and
\* chunk shift; ncs: the new chunk shift; st: the new counters, missing
\* pages, storage bits and attributes.  <<block, st>> when the loop ends.
RECURSIVE ResizeOverlap(_, _, _, _, _, _, _)
ResizeOverlap(block, blocks, ob, ocs, ncs, got, st) ==
    IF block >= blocks THEN <<block, st>>
    ELSE
    LET opage == PageOfChunk(block \div (2^ocs))
        old_blocks == Blocks(ob[opage], ocs, block)
        set == /\ CheckpageEntry(ob, opage, FALSE) = "ok"
               /\ NEEDED(GetCounter(ob, ocs, block))
    IN  IF ~set
        THEN ResizeOverlap(block + old_blocks, blocks, ob, ocs, ncs, got, st)
        ELSE
        LET npage == PageOfChunk(block \div (2^ncs))
            ep == EnsurePage(st.bp, st.missing, npage, got)
            new_blocks == Blocks(ep[1][npage], ncs, block)
            c == GetCounter(ep[1], ncs, block)
            fs == IF c = 0 THEN FileSetBit(st.fm, st.attr, ncs, block)
                  ELSE <<st.fm, st.attr>>
            c2 == IF c = 0 THEN 2 ELSE c
            c3 == IF NEEDED(c2) THEN c2 ELSE c2 + NEEDED_MASK
            b2 == PutCounter(ep[1], ncs, block, c3)
            cp == IF c = 0 THEN CountPage(b2, ep[2], ncs, block, 1)
                  ELSE <<b2, ep[2]>>
            b3 == IF c = 0 THEN SetPending(cp[1], ncs, block) ELSE cp[1]
        IN  ResizeOverlap(block + Min(new_blocks, old_blocks), blocks, ob, ocs,
                          ncs, got,
                          [bp |-> b3, missing |-> cp[2], fm |-> fs[1],
                           attr |-> fs[2]])

\* The loop of lines 2176-2193 from block on, up to the new end
RECURSIVE ResizeBeyond(_, _, _, _, _)
ResizeBeyond(block, end, ncs, got, st) ==
    IF block >= end THEN st
    ELSE
    LET npage == PageOfChunk(block \div (2^ncs))
        ep == EnsurePage(st.bp, st.missing, npage, got)
        new_blocks == Blocks(ep[1][npage], ncs, block)
        c == GetCounter(ep[1], ncs, block)
        b2 == PutCounter(ep[1], ncs, block, NEEDED_MASK + 2)
        cp == CountPage(b2, ep[2], ncs, block, 1)
    IN  ResizeBeyond(block + new_blocks, end, ncs, got,
                     IF c = 0
                     THEN [st EXCEPT !.bp = SetPending(cp[1], ncs, block),
                                     !.missing = cp[2]]
                     ELSE [st EXCEPT !.bp = ep[1], !.missing = ep[2]])

\* the array is quiesced: no write is between startwrite and endwrite
Quiesced == bulk = 0 /\ \A w \in DOMAIN wr : wr[w].pc = "idle"

\* bitmap_resize up to its call of bitmap_unplug, which is left running
\* (lines 2098-2200); the caller holds off the daemon, other unplugs and
\* bitmap_load, and sets the array's size to blocks
Resize ==
    /\ Quiesced
    /\ sy.pc = "idle"
    /\ up.pc = "idle"
    /\ dm.pc = "idle"
    /\ IoIdle
    /\ \E blocks \in env.sizes, ncs \in env.shifts :
         LET nchunks == DivRoundUp(blocks, 2^ncs)
             pages == CounterPagesOf(nchunks)
             npages == StoragePagesOf(nchunks, HasSb)
             overlap == Min(chunks * (2^chunkshift), nchunks * (2^ncs))
             fresh == [bp |-> [p \in 0..(pages - 1) |-> EmptySlot],
                       missing |-> pages, fm |-> {},
                       attr |-> [p \in 0..(npages - 1) |-> {}]]
         IN  \E got \in [0..(pages - 1) -> env.alloc] :
               LET ov == ResizeOverlap(0, overlap, bp, chunkshift, ncs, got, fresh)
                   st == ResizeBeyond(ov[1], nchunks * (2^ncs), ncs, got, ov[2])
               IN  /\ chunkshift' = ncs
                   /\ chunks' = nchunks
                   /\ bp' = st.bp
                   /\ missing_pages' = st.missing
                   /\ filemap' = st.fm
                   /\ filemap_attr' = [p \in 0..(npages - 1) |->
                                          st.attr[p] \cup {DIRTY}]
                   /\ io' = [p \in 0..(npages - 1) |-> NoIo]
                   /\ disk' = {c \in disk : file_page_index(HasSb, c) < npages}
                   /\ mddev' = [mddev EXCEPT !.resync_max_sectors = blocks,
                                             !.chunksize = 512 * (2^ncs)]
                   /\ up' = (IF STALE \in flags THEN IdleUnplug
                             ELSE [pc |-> "loop", i |-> 0, wait |-> FALSE,
                                   sets |-> st.fm \ disk, clrs |-> disk \ st.fm,
                                   quiesce |-> TRUE])
    /\ UNCHANGED <<env, flags, allclean, need_sync, events_cleared, behindVars,
                   sy, wr, bulk, dm, sbVars, kernVars>>

\* ------------------------------------------------------------------------
\* The resync engine: bitmap_start_sync, bitmap_end_sync, bitmap_close_sync
\* ------------------------------------------------------------------------
\* the caller of bitmap_load.  i, oldindex, start, outofdate, chunks:
\* bitmap_init_from_disk's locals
\* clean: what bitmap_flush found when it was called (kept for the flush
\* property)
IdleSync ==
    [pc |-> "idle", i |-> 0, oldindex |-> -1, start |-> 0, outofdate |-> FALSE,
     chunks |-> 0, clean |-> FALSE]

\* *blocks as bitmap_get_counter leaves it (lines 1312-1318).  Past the last
\* page slot bitmap_checkpage has returned -EINVAL and the slot read lies
\* outside bp: either chunk size may come out (wide: the larger one does).
SyncBlocks(b, cs, off, wide) ==
    LET page == PageOfChunk(off \div (2^cs))
        span == 2^(cs + PAGE_COUNTER_SHIFT - 1)
    IN  IF page \in DOMAIN b THEN Blocks(b[page], cs, off)
        ELSE IF wide THEN span - (off % span)
        ELSE (2^cs) - (off % (2^cs))

\* __bitmap_start_sync that trades the flags of a degraded array too
StartSyncCounter_Degraded(c, degraded) ==
    IF RESYNC(c) THEN c
    ELSE IF NEEDED(c) THEN c + RESYNC_MASK - NEEDED_MASK
    ELSE c

\* the counter __bitmap_start_sync stores (lines 1465-1476)
StartSyncCounter(c, degraded) ==
    IF RESYNC(c) THEN c
    ELSE IF NEEDED(c) /\ ~degraded THEN c + RESYNC_MASK - NEEDED_MASK
    ELSE c

\* __bitmap_start_sync(offset, degraded): the page pool afterwards
StartSyncBody(b, off, degraded) ==
    IF CheckpageEntry(b, PageOfChunk(off \div (2^chunkshift)), FALSE) # "ok" THEN b
    ELSE PutCounter(b, chunkshift, off,
                    StartSyncCounter(GetCounter(b, chunkshift, off), degraded))

\* __bitmap_start_sync(offset, degraded): its return value rv (lines 1458-1478)
StartSyncRet(b, off) ==
    IF ~mddev.bitmap THEN TRUE
    ELSE IF CheckpageEntry(b, PageOfChunk(off \div (2^chunkshift)), FALSE) # "ok"
    THEN FALSE
    ELSE LET c == GetCounter(b, chunkshift, off) IN RESYNC(c) \/ NEEDED(c)

\* bitmap_start_sync's loop (lines 1495-1500) from offset on, blocks covered
\* so far: <<bp, *blocks>> when it returns
RECURSIVE StartSyncLoop(_, _, _, _, _)
StartSyncLoop(b, offset, blocks, degraded, wide) ==
    IF blocks >= PageSectors THEN <<b, blocks>>
    ELSE LET blocks1 == SyncBlocks(b, chunkshift, offset, wide)
         IN  StartSyncLoop(StartSyncBody(b, offset, degraded), offset + blocks1,
                           blocks + blocks1, degraded, wide)

\* bitmap_end_sync that drops RESYNC whatever became of the resync
EndSyncCounter_Forget(c, aborted) ==
    IF ~RESYNC(c) THEN c ELSE c - RESYNC_MASK

\* the counter bitmap_end_sync stores (lines 1519-1523)
EndSyncCounter(c, aborted) ==
    IF ~RESYNC(c) THEN c
    ELSE IF ~NEEDED(c) /\ aborted THEN c - RESYNC_MASK + NEEDED_MASK
    ELSE c - RESYNC_MASK

\* bitmap_end_sync(offset, aborted): <<bp, allclean>> afterwards
EndSyncBody(b, ac, off, aborted) ==
    IF CheckpageEntry(b, PageOfChunk(off \div (2^chunkshift)), FALSE) # "ok"
    THEN <<b, ac>>
    ELSE LET c == GetCounter(b, chunkshift, off)
             c2 == EndSyncCounter(c, aborted)
             b2 == PutCounter(b, chunkshift, off, c2)
             pend == RESYNC(c) /\ ~(~NEEDED(c) /\ aborted) /\ c2 <= 2
         IN  <<(IF pend THEN SetPending(b2, chunkshift, off) ELSE b2),
               (IF pend THEN FALSE ELSE ac)>>

\* bitmap_close_sync that ends every resync as aborted
RECURSIVE CloseSyncLoop_Aborted(_, _, _, _)
CloseSyncLoop_Aborted(b, ac, sector, wide) ==
    IF sector >= mddev.resync_max_sectors THEN <<b, ac>>
    ELSE LET e == EndSyncBody(b, ac, sector, TRUE)
         IN  CloseSyncLoop_Aborted(e[1], e[2],
                                   sector + SyncBlocks(b, chunkshift, sector, wide),
                                   wide)

\* bitmap_close_sync's loop (lines 1546-1549) from sector on: <<bp, allclean>>
RECURSIVE CloseSyncLoop(_, _, _, _)
CloseSyncLoop(b, ac, sector, wide) ==
    IF sector >= mddev.resync_max_sectors THEN <<b, ac>>
    ELSE LET e == EndSyncBody(b, ac, sector, FALSE)
         IN  CloseSyncLoop(e[1], e[2],
                           sector + SyncBlocks(b, chunkshift, sector, wide), wide)

\* bitmap_start_sync(offset, &blocks, degraded) called by the resync engine
StartSync ==
    /\ \E offset \in env.syncs, degraded \in env.degraded, wide \in BOOLEAN :
         bp' = StartSyncLoop(bp, offset, 0, degraded, wide)[1]
    /\ UNCHANGED <<chunkshift, chunks, env, missing_pages, storeVars, flags,
                   allclean, need_sync, events_cleared, behindVars, mddev, sy,
                   wr, bulk, dm, up, sbVars, kernVars>>

\* bitmap_end_sync(offset, &blocks, aborted) called by the resync engine
EndSync ==
    /\ \E offset \in env.syncs, aborted \in env.aborted :
         LET e == EndSyncBody(bp, allclean, offset, aborted)
         IN  bp' = e[1] /\ allclean' = e[2]
    /\ UNCHANGED <<chunkshift, chunks, env, missing_pages, storeVars, flags,
                   need_sync, events_cleared, behindVars, mddev, sy, wr, bulk,
                   dm, up, sbVars, kernVars>>

\* bitmap_close_sync called by the resync engine
CloseSync ==
    /\ env.syncs # {}
    /\ \E wide \in BOOLEAN :
         LET e == CloseSyncLoop(bp, allclean, 0, wide)
         IN  bp' = e[1] /\ allclean' = e[2]
    /\ UNCHANGED <<chunkshift, chunks, env, missing_pages, storeVars, flags,
                   need_sync, events_cleared, behindVars, mddev, sy, wr, bulk,
                   dm, up, sbVars, kernVars>>

\* ------------------------------------------------------------------------
\* bitmap_load on a bitmap whose image lies on the member devices or in a
\* file
\* ------------------------------------------------------------------------
\* bitmap_set_memory_bits from get_counter's return on (lines 1594-1603):
\* <<bp, missing_pages, allclean>> afterwards
SetMemoryBits(b, missing, ac, off, needed) ==
    IF GetCounter(b, chunkshift, off) # 0 THEN <<b, missing, ac>>
    ELSE LET b2 == PutCounter(b, chunkshift, off,
                              2 + (IF needed THEN NEEDED_MASK ELSE 0))
             cp == CountPage(b2, missing, chunkshift, off, 1)
         IN  <<SetPending(cp[1], chunkshift, off), cp[2], FALSE>>

\* bitmap_load's sweep with bitmap_start_sync (lines 1982-1986) from sector on
RECURSIVE LoadSweep(_, _, _)
LoadSweep(b, sector, wide) ==
    IF sector >= mddev.resync_max_sectors THEN b
    ELSE LET r == StartSyncLoop(b, sector, 0, FALSE, wide)
         IN  LoadSweep(r[1], sector + r[2], wide)

\* bitmap_load up to bitmap_init_from_disk's loop: the sweep, bitmap_close_sync,
\* the choice of start (lines 1982-1993) and lines 1014, 1032, 1045.  Its
\* caller has quiesced the array (lines 2275-2277) and does not resize the
\* bitmap meanwhile.
LoadBegin ==
    /\ sy.pc = "idle"
    /\ mddev.bitmap
    /\ MutexFree
    /\ mutex' = "load"
    /\ Quiesced
    /\ ~up.quiesce
    /\ \E recovery_cp \in env.recovery_cp, wide \in BOOLEAN :
         LET e == CloseSyncLoop(LoadSweep(bp, 0, wide), allclean, 0, wide)
         IN  /\ bp' = e[1]
             /\ allclean' = e[2]
             /\ sy' = [IdleSync EXCEPT
                          !.pc = "init", !.chunks = chunks,
                          !.outofdate = (STALE \in flags),
                          !.start = IF ~mddev.degraded \/
                                       events_cleared = mddev.events
                                    THEN recovery_cp ELSE 0]
    /\ UNCHANGED <<chunkshift, chunks, env, missing_pages, storeVars, flags,
                   need_sync, events_cleared, behindVars, mddev, wr, bulk, dm,
                   up, sbVars, super_lock, freed, res>>

\* bitmap_init_from_disk comes to a new page (lines 1054-1092): the page is
\* read in; the page of an out-of-date bitmap is filled with ones and
\* written with write_page(page, 1)
LoadReadPage ==
    /\ sy.pc = "init"
    /\ sy.i < sy.chunks
    /\ LET index == file_page_index(HasSb, sy.i)
           here == IF index \in DOMAIN filemap_attr
                   THEN PageChunks(filemap_attr, index) ELSE {}
           read == (filemap \ here) \cup (disk \cap here)
           fm == IF sy.outofdate THEN read \cup here ELSE read
       IN  /\ index # sy.oldindex
           /\ filemap' = fm
           /\ \E lk \in env.locks :
                IF sy.outofdate /\ index \in DOMAIN io
                THEN /\ io' = Submit(io, fm, filemap_attr, sb, index, lk)
                     /\ flags' = WriteError(flags, index, lk)
                     /\ super_lock' = (~mddev.file /\ WriteSent(index, lk).ret = "ok")
                ELSE UNCHANGED <<io, flags, super_lock>>
           /\ sy' = [sy EXCEPT !.oldindex = index,
                               !.pc = IF sy.outofdate THEN "initwait" ELSE "init"]
    /\ UNCHANGED <<countsVars, filemap_attr, disk, allclean, need_sync,
                   events_cleared, behindVars, mddev, wr, bulk, dm, up, sbVars,
                   mutex, freed, res>>

\* write_page(page, 1) waits for the write, then looks at WRITE_ERROR
\* (lines 291-296): bitmap_file_kick sets STALE and rewrites the superblock.
\* After the write of a page bitmap_init_from_disk goes on, or gives up on
\* WRITE_ERROR (lines 1088-1091) and bitmap_load returns the error; after
\* bitmap_update_sb's write bitmap_load (sbwait) or the array's call of
\* bitmap_update_sb (updsb) returns.
LoadWait ==
    /\ sy.pc \in {"initwait", "sbwait", "updsb"}
    /\ IoIdle
    /\ IF WRITE_ERROR \in flags /\ STALE \notin flags
       THEN \E lk \in env.locks :
              LET k == Kick(WriteState(io, flags, sb, events_cleared),
                            filemap, filemap_attr, lk)
              IN  /\ io' = k.io
                  /\ flags' = k.flags
                  /\ sb' = k.sb
                  /\ events_cleared' = k.events_cleared
                  /\ super_lock' = k.wait
                  /\ sy' = [sy EXCEPT !.pc = IF sy.pc = "updsb" THEN "updsb"
                                              ELSE "sbwait"]
                  /\ mutex' = mutex
       ELSE /\ sy' = (IF sy.pc \in {"sbwait", "updsb"} \/ WRITE_ERROR \in flags
                      THEN IdleSync
                      ELSE [sy EXCEPT !.pc = "init"])
            /\ super_lock' = FALSE
            /\ mutex' = (IF sy'.pc = "idle" /\ mutex = "load" THEN "none"
                         ELSE mutex)
            /\ UNCHANGED <<flags, io, sb, events_cleared>>
    /\ UNCHANGED <<countsVars, filemap, filemap_attr, disk, disk_sb, allclean,
                   need_sync, behindVars, mddev, wr, bulk, dm, up,
                   freed, res>>

\* the chunk bitmap_init_from_disk has come to: its bit is set in the page
LoadBitSet == sy.i \in filemap

\* the page slot of that chunk's counter
LoadPage == PageOfChunk(sy.i)

\* lines 1094-1109 for a chunk of the page at hand, when bitmap_checkpage
\* does not allocate
LoadChunk ==
    /\ sy.pc = "init"
    /\ sy.i < sy.chunks
    /\ file_page_index(HasSb, sy.i) = sy.oldindex
    /\ LoadBitSet => CheckpageEntry(bp, LoadPage, TRUE) # "alloc"
    /\ LET off == sy.i * (2^chunkshift)
           needed == (sy.i + 1) * (2^chunkshift) >= sy.start
           m == IF LoadBitSet /\ CheckpageEntry(bp, LoadPage, TRUE) = "ok"
                THEN SetMemoryBits(bp, missing_pages, allclean, off, needed)
                ELSE <<bp, missing_pages, allclean>>
       IN  bp' = m[1] /\ missing_pages' = m[2] /\ allclean' = m[3]
    /\ sy' = [sy EXCEPT !.i = @ + 1]
    /\ UNCHANGED <<chunkshift, chunks, env, storeVars, flags, need_sync,
                   events_cleared, behindVars, mddev, wr, bulk, dm, up, sbVars,
                   kernVars>>

\* bitmap_checkpage drops counts.lock to allocate (line 74)
LoadUnlock ==
    /\ sy.pc = "init"
    /\ sy.i < sy.chunks
    /\ file_page_index(HasSb, sy.i) = sy.oldindex
    /\ LoadBitSet
    /\ CheckpageEntry(bp, LoadPage, TRUE) = "alloc"
    /\ sy' = [sy EXCEPT !.pc = "initalloc"]
    /\ UNCHANGED <<countsVars, storeVars, flags, allclean, need_sync,
                   events_cleared, behindVars, mddev, wr, bulk, dm, up, sbVars,
                   kernVars>>

\* the allocation returns, the lock is retaken and bitmap_set_memory_bits
\* goes on
LoadAlloc ==
    /\ sy.pc = "initalloc"
    /\ \E got \in env.alloc :
         LET off == sy.i * (2^chunkshift)
             needed == (sy.i + 1) * (2^chunkshift) >= sy.start
             m == IF LoadPage \in DOMAIN bp
                  THEN SetMemoryBits(
                           [bp EXCEPT ![LoadPage] = CheckpageInstall(@, got)],
                           CheckpageMissing(bp[LoadPage], got, missing_pages),
                           allclean, off, needed)
                  ELSE <<bp, missing_pages, allclean>>
         IN  bp' = m[1] /\ missing_pages' = m[2] /\ allclean' = m[3]
    /\ sy' = [sy EXCEPT !.pc = "init", !.i = @ + 1]
    /\ UNCHANGED <<chunkshift, chunks, env, storeVars, flags, need_sync,
                   events_cleared, behindVars, mddev, wr, bulk, dm, up, sbVars,
                   kernVars>>

\* bitmap_init_from_disk has returned 0: lines 2001-2009, bitmap_update_sb
\* (lines 418-438) writing the superblock with write_page(sb_page, 1)
LoadFinish ==
    /\ sy.pc = "init"
    /\ sy.i >= sy.chunks
    /\ \E lk \in env.locks :
         LET fl == flags \ {STALE}
             u == UpdateSbFields(sb, events_cleared, fl)
             st == [io |-> io, flags |-> fl, sb |-> u[1],
                    events_cleared |-> u[2], wait |-> FALSE]
             w == IF HasSb THEN UpdateSbWrite(st, filemap, filemap_attr, lk)
                  ELSE st
         IN  /\ sb' = w.sb
             /\ events_cleared' = w.events_cleared
             /\ io' = w.io
             /\ flags' = w.flags
             /\ super_lock' = w.wait
    /\ sy' = (IF HasSb THEN [sy EXCEPT !.pc = "sbwait"] ELSE IdleSync)
    /\ mutex' = "none"
    /\ UNCHANGED <<countsVars, filemap, filemap_attr, disk, disk_sb, allclean,
                   need_sync, behindVars, mddev, wr, bulk, dm, up,
                   freed, res>>

\* The array changes its event counter (mddev->events), up or down.
ArrayEvents ==
    /\ \E e \in env.events \ {mddev.events} : mddev' = [mddev EXCEPT !.events = e]
    /\ UNCHANGED <<countsVars, storeVars, sbVars, flags, allclean, need_sync,
                   events_cleared, behindVars, sy, wr, bulk, dm, up,
                   kernVars>>

\* bitmap_update_sb called by the array as it writes its own superblock
\* (lines 407-440), up to the wait of its write_page(sb_page, 1)
UpdateSb ==
    /\ sy.pc = "idle"
    /\ \E lk \in env.locks :
         LET u == UpdateSbFields(sb, events_cleared, flags)
             st == [io |-> io, flags |-> flags, sb |-> u[1],
                    events_cleared |-> u[2], wait |-> FALSE]
             w == IF HasSb THEN UpdateSbWrite(st, filemap, filemap_attr, lk)
                  ELSE st
         IN  /\ sb' = w.sb
             /\ events_cleared' = w.events_cleared
             /\ io' = w.io
             /\ flags' = w.flags
             /\ super_lock' = w.wait
    /\ sy' = (IF HasSb THEN [sy EXCEPT !.pc = "updsb"] ELSE sy)
    /\ UNCHANGED <<countsVars, filemap, filemap_attr, disk, disk_sb, allclean,
                   need_sync, behindVars, mddev, wr, bulk, dm, up,
                   mutex, freed, res>>

SyncActions ==
    \/ StartSync
    \/ EndSync
    \/ CloseSync

LoadActions ==
    \/ LoadBegin
    \/ LoadReadPage
    \/ LoadWait
    \/ LoadChunk
    \/ LoadUnlock
    \/ LoadAlloc
    \/ LoadFinish

\* the chunks of the write that writer w has between startwrite and endwrite
Covered(w) == RangeChunks(wr[w].r, chunkshift)

\* the counter that stands for chunk c: 0 when its page slot has no counters
CounterOf(c) ==
    IF CheckpageEntry(bp, PageOfChunk(c), FALSE) = "ok"
    THEN GetCounter(bp, chunkshift, c * (2^chunkshift))
    ELSE 0

\* the storage page that holds the bit of chunk c
BitPage(c) == file_page_index(HasSb, c)

\* ------------------------------------------------------------------------
\* The bitmap in service: created and loaded, no write yet, or with
\* COUNTER_MAX - 2 writes in flight on chunk 0 (its counter saturated, its
\* bit set and on disk).
\* ------------------------------------------------------------------------
\* a counter page slot in which chunk 0 has counter c0
SlotWith(c0) ==
    IF c0 = 0 THEN EmptySlot
    ELSE [hijacked |-> FALSE, alloc |-> TRUE,
          cells |-> [i \in 1..PAGE_COUNTER_RATIO |-> IF i = 1 THEN c0 ELSE 0],
          count |-> 1, pending |-> COUNTER(c0) <= 2]

\* no dlm_lock_resource: no cluster lock request is ever made
NoLocks == [lock |-> <<>>, avail_bitmap |-> <<>>, reclaim_bitmap |-> <<>>,
            used |-> -1]

\* bitmap_create has connected the bitmap: nobody holds a lock
InitKernel ==
    /\ super_lock = FALSE
    /\ mutex = "none"
    /\ freed = FALSE

InitStorage(nchunks, with_super, bits) ==
    /\ filemap = bits
    /\ disk = bits
    /\ filemap_attr = [p \in 0..(StoragePagesOf(nchunks, with_super) - 1) |-> {}]
    /\ io = [p \in 0..(StoragePagesOf(nchunks, with_super) - 1) |-> NoIo]
    /\ sb = SbImage(1, 0, {})
    /\ disk_sb = SbImage(1, 0, {})
    /\ InitKernel

\* nchunks: the chunks of the device; W: the writers; c0: the counter of
\* chunk 0; inflight: the writes in flight on chunk 0 that c0 counts;
\* with_super: bitmap_storage_alloc's argument, !bitmap_info.external
InitBitmapOn(nchunks, W, c0, inflight, with_super) ==
    /\ chunkshift = 0
    /\ chunks = nchunks
    /\ bulk = inflight
    /\ bp = [p \in 0..(CounterPagesOf(nchunks) - 1) |->
                IF p = 0 THEN SlotWith(c0) ELSE EmptySlot]
    /\ missing_pages = CounterPagesOf(nchunks) - (IF c0 > 0 THEN 1 ELSE 0)
    /\ InitStorage(nchunks, with_super, IF c0 > 0 THEN {0} ELSE {})
    /\ flags = {}
    /\ allclean = FALSE
    /\ need_sync = FALSE
    /\ events_cleared = 0
    /\ behind_writes = 0
    /\ behind_writes_used = 0
    /\ behind_peak = 0
    /\ wr = [w \in W |-> IdleWriter]
    /\ dm = [pc |-> "idle", j |-> 0, timeout |-> "daemon_sleep", ticks |-> 0]
    /\ up = IdleUnplug
    /\ sy = IdleSync

\* the bitmap with a superblock in page 0 of its image (internal metadata)
InitBitmap(nchunks, W, c0, inflight) == InitBitmapOn(nchunks, W, c0, inflight, TRUE)

\* the bitmap in service on a node that makes no cluster lock request
InitServiceOf(nchunks, W, c0, inflight) ==
    /\ InitBitmap(nchunks, W, c0, inflight)
    /\ res = NoLocks

\* What the callers of a specification do: the ranges they write, whether
\* their writes are write-behind, their results, and whether the page
\* allocator delivers; prior: the counter chunk 0 starts with; ticks: the
\* daemon passes counted; sizes, shifts: the arguments given to bitmap_resize;
\* syncs, degraded, aborted: the arguments the resync engine gives to
\* bitmap_start_sync and bitmap_end_sync; recovery_cp: the values of
\* mddev->recovery_cp that bitmap_load finds (none: it is not called);
\* locks: what md_lock_super may return; events: the values the array gives
\* its event counter; images: the superblocks bitmap_read_sb may find on
\* disk; bufs: what is written to the sysfs attribute chunksize
Callers(ranges, behind, success, alloc) ==
    [ranges |-> ranges, behind |-> behind, success |-> success, alloc |-> alloc,
     prior |-> 0, ticks |-> 0, sizes |-> {}, shifts |-> {},
     syncs |-> {}, degraded |-> {}, aborted |-> {}, recovery_cp |-> {},
     locks |-> {"ok"}, events |-> {}, images |-> {}, bufs |-> {}]

InitService(W, c0, inflight) == InitServiceOf(InitChunks, W, c0, inflight)

\* a member device: rdev->sb_start, rdev->data_offset; active: raid_disk >= 0
\* and not Faulty
Member(sb_start, data_offset, active) ==
    [sb_start |-> sb_start, data_offset |-> data_offset, active |-> active]

\* offset: bitmap_info.offset.  The one member has its data before the
\* metadata and the bitmap after it.
Array(file, max_write_behind) ==
    [file |-> file, external |-> FALSE, degraded |-> FALSE, events |-> 1,
     bitmap |-> TRUE, chunksize |-> 512,
     max_write_behind |-> max_write_behind, resync_max_sectors |-> InitChunks,
     offset |-> 1, dev_sectors |-> InitChunks,
     rdevs |-> <<Member(InitChunks, 0, TRUE)>>]

WriterActions(w) ==
    \/ StartwriteBegin(w)
    \/ StartwriteStep(w)
    \/ StartwriteUnlock(w)
    \/ StartwriteAlloc(w)
    \/ EndwriteBegin(w)
    \/ EndwriteStep(w)

UnplugActions ==
    \/ UnplugStart
    \/ UnplugPage
    \/ UnplugFinish

DaemonActions ==
    \/ DaemonStart
    \/ DaemonPromote
    \/ DaemonNeedSync
    \/ DaemonCounters
    \/ DaemonWriteout
    \/ DaemonDone

\* ------------------------------------------------------------------------
\* Spec: one writer, the unplug caller, the daemon and the transport, on a
\* bitmap embedded in the member devices.
\* ------------------------------------------------------------------------
Init ==
    /\ InitService({1}, 0, 0)
    /\ mddev = Array(FALSE, 0)
    /\ env = Callers({<<0, 1>>, <<1, 2>>}, {FALSE}, {TRUE},
                     BOOLEAN)

Next ==
    \/ \E w \in DOMAIN wr : WriterActions(w)
    \/ UnplugActions
    \/ DaemonActions
    \/ \E p \in DOMAIN io : IoComplete(p)

Spec == Init /\ [][Next]_vars

\* ------------------------------------------------------------------------
\* SpecBalance: two writers of chunk 0 and the unplug caller, no daemon; the
\* counter of chunk 0 starts at any value a quiescent bitmap can hold.
\* ------------------------------------------------------------------------
PriorCounters ==
    {0, 1, 2, NEEDED_MASK + 2, NEEDED_MASK + RESYNC_MASK + 2, RESYNC_MASK + 2}

InitBalance ==
    /\ \E c0 \in PriorCounters :
         /\ InitService({1, 2}, c0, 0)
         /\ env = [Callers({<<0, 1>>}, {FALSE}, {TRUE},
                           {TRUE}) EXCEPT !.prior = c0]
    /\ mddev = Array(FALSE, 0)

NextBalance ==
    \/ \E w \in DOMAIN wr : WriterActions(w)
    \/ UnplugActions
    \/ \E p \in DOMAIN io : IoComplete(p)

SpecBalance == InitBalance /\ [][NextBalance]_vars

\* ------------------------------------------------------------------------
\* SpecLifecycle: one write of one chunk of a clean bitmap (startwrite, the
\* unplug it waits for, endwrite), then daemon passes with nothing else
\* going on.
\* ------------------------------------------------------------------------
MaxTicks == 3

AllCountersZero == \A c \in 0..(chunks - 1) : CounterOf(c) = 0

\* no write has been made yet
Untouched == AllCountersZero /\ filemap = {} /\ dm.ticks = 0

InitLifecycle ==
    /\ InitService({1}, 0, 0)
    /\ mddev = Array(FALSE, 0)
    /\ env = [Callers({<<0, 1>>, <<1, 1>>, <<2, 1>>, <<3, 1>>}, {FALSE}, {TRUE},
                           {TRUE}) EXCEPT !.ticks = MaxTicks]

NextLifecycle ==
    \/ Untouched /\ StartwriteBegin(1)
    \/ StartwriteUnlock(1)
    \/ StartwriteAlloc(1)
    \/ wr[1].pc = "flying" /\ UnplugStart
    \/ UnplugPage
    \/ UnplugFinish
    \/ EndwriteBegin(1)
    \/ EndwriteStep(1)
    \/ wr[1].pc = "idle" /\ ~Untouched /\ DaemonStart
    \/ DaemonPromote
    \/ DaemonNeedSync
    \/ DaemonCounters
    \/ DaemonWriteout
    \/ DaemonDone
    \/ \E p \in DOMAIN io : IoComplete(p)

SpecLifecycle == InitLifecycle /\ [][NextLifecycle]_vars

\* ------------------------------------------------------------------------
\* SpecOverflow: chunk 0 saturated by COUNTER_MAX - 2 writes in flight, of
\* which MaxBulkEnd end; two more writers of chunk 0 and the unplug caller.
\* Every thread that can run does run (weak fairness of each thread's
\* steps).  No storage page changes: the bit of chunk 0 stays set.
\* ------------------------------------------------------------------------
OverflowWriters == {1, 2}

InitOverflow ==
    /\ InitService(OverflowWriters, COUNTER_MAX, COUNTER_MAX - 2)
    /\ mddev = Array(FALSE, 0)
    /\ env = [Callers({<<0, 1>>}, {FALSE}, BOOLEAN,
                           {TRUE}) EXCEPT !.prior = COUNTER_MAX]

OverflowWriter(w) ==
    \/ StartwriteBegin(w)
    \/ StartwriteStep(w)
    \/ StartwriteWake(w)
    \/ EndwriteBegin(w)
    \/ EndwriteStep(w)

NextOverflow ==
    \/ \E w \in OverflowWriters : OverflowWriter(w)
    \/ EndwriteBulk
    \/ UnplugActions

SpecOverflow ==
    /\ InitOverflow
    /\ [][NextOverflow]_vars
    /\ \A w \in OverflowWriters : WF_vars(OverflowWriter(w))
    /\ WF_vars(EndwriteBulk)
    /\ WF_vars(UnplugActions)

\* ------------------------------------------------------------------------
\* SpecBehind: two writers that may flag their writes write-behind, on an
\* array whose write-behind limit is MaxWriteBehind, and the unplug caller.
\* ------------------------------------------------------------------------
MaxWriteBehind == 1

InitBehind ==
    /\ InitService({1, 2}, 0, 0)
    /\ mddev = Array(FALSE, MaxWriteBehind)
    /\ env = Callers({<<0, 1>>, <<2, 1>>}, BOOLEAN, {TRUE},
                     {TRUE})

NextBehind ==
    \/ \E w \in DOMAIN wr : WriterActions(w)
    \/ UnplugActions
    \/ \E p \in DOMAIN io : IoComplete(p)

SpecBehind == InitBehind /\ [][NextBehind]_vars

\* ------------------------------------------------------------------------
\* SpecResize: one writer whose writes may fail (leaving NEEDED), the unplug
\* caller, and bitmap_resize to other device sizes and chunk sizes, from
\* devices of InitChunks - 1 to InitChunks + 1 chunks.
\* ------------------------------------------------------------------------
ResizeBlocks == {InitChunks - 1, InitChunks + 2}

InitResize ==
    /\ \E n \in {InitChunks - 1, InitChunks, InitChunks + 1} :
         InitServiceOf(n, {1}, 0, 0)
    /\ mddev = [Array(FALSE, 0) EXCEPT !.resync_max_sectors = chunks]
    /\ env = [Callers({<<2, 1>>}, {FALSE}, BOOLEAN, BOOLEAN)
                 EXCEPT !.sizes = ResizeBlocks, !.shifts = {0, 1}]

NextResize ==
    \/ \E w \in DOMAIN wr : WriterActions(w)
    \/ UnplugActions
    \/ \E p \in DOMAIN io : IoComplete(p)
    \/ Resize

SpecResize == InitResize /\ [][NextResize]_vars

\* ------------------------------------------------------------------------
\* SpecCounters: every operation that stores a counter.  One writer whose
\* writes may fail, the unplug caller, the daemon, the resync engine,
\* bitmap_load and bitmap_resize, on a clean bitmap or on one whose chunk 0
\* is saturated by COUNTER_MAX - 2 writes in flight, of which MaxBulkEnd end.
\* The page allocator delivers throughout, or fails throughout (every page
\* slot is then hijacked).
\* ------------------------------------------------------------------------
CounterWriters == {1}

InitCounters ==
    /\ \E c0 \in {0, COUNTER_MAX}, alloc \in {{TRUE}, {FALSE}} :
         /\ c0 = 0 \/ alloc = {TRUE}
         /\ InitService(CounterWriters, c0, IF c0 = 0 THEN 0 ELSE COUNTER_MAX - 2)
         /\ env = [Callers({<<0, 1>>}, {FALSE}, BOOLEAN, alloc)
                      EXCEPT !.prior = c0,
                             !.sizes = {InitChunks - 1}, !.shifts = {1},
                             !.syncs = {0}, !.degraded = {FALSE},
                             !.aborted = BOOLEAN, !.recovery_cp = {0}]
    /\ mddev = Array(FALSE, 0)

NextCounters ==
    \/ \E w \in CounterWriters : WriterActions(w)
    \/ \E w \in CounterWriters : StartwriteWake(w)
    \/ EndwriteBulk
    \/ UnplugActions
    \/ DaemonActions
    \/ \E p \in DOMAIN io : IoComplete(p)
    \/ SyncActions
    \/ LoadActions
    \/ Resize

SpecCounters == InitCounters /\ [][NextCounters]_vars

\* ------------------------------------------------------------------------
\* SpecLoad: bitmap_load on a bitmap just created (every counter 0, no page
\* of the image read yet), whose image holds any bits and whose superblock
\* marked it STALE or not; the array degraded or not, with a recovery
\* checkpoint at the start of the device, inside it or past its end.
\* ------------------------------------------------------------------------
\* the values of mddev->recovery_cp: 0, the second chunk, MaxSector
RecoveryCps == {0, 2, 2^COUNTER_BITS}

\* the bitmap as bitmap_create leaves it: fl: the flags read_sb took from
\* the superblock; bits: the bits of the image on disk
InitCreated(nchunks, bits, fl) ==
    /\ chunkshift = 0
    /\ chunks = nchunks
    /\ bulk = 0
    /\ bp = [p \in 0..(CounterPagesOf(nchunks) - 1) |-> EmptySlot]
    /\ missing_pages = CounterPagesOf(nchunks)
    /\ filemap = {}
    /\ disk = bits
    /\ filemap_attr = [p \in 0..(StoragePagesOf(nchunks, TRUE) - 1) |-> {}]
    /\ io = [p \in 0..(StoragePagesOf(nchunks, TRUE) - 1) |-> NoIo]
    /\ sb = SbImage(1, 0, fl)
    /\ disk_sb = SbImage(1, 0, fl)
    /\ flags = fl
    /\ allclean = FALSE
    /\ need_sync = FALSE
    /\ events_cleared = 0
    /\ behind_writes = 0
    /\ behind_writes_used = 0
    /\ behind_peak = 0
    /\ wr = [w \in {1} |-> IdleWriter]
    /\ dm = [pc |-> "idle", j |-> 0, timeout |-> "daemon_sleep", ticks |-> 0]
    /\ up = IdleUnplug
    /\ sy = IdleSync
    /\ InitKernel
    /\ res = NoLocks

\* bitmap_load has not been called yet
NotLoaded == sy.pc = "idle" /\ \A c \in 0..(chunks - 1) : CounterOf(c) = 0

InitLoad ==
    /\ \E bits \in SUBSET (0..(InitChunks - 1)), fl \in {{}, {STALE}} :
         InitCreated(InitChunks, bits, fl)
    /\ \E degraded \in BOOLEAN : mddev = [Array(FALSE, 0) EXCEPT !.degraded = degraded]
    /\ env = [Callers({}, {}, {}, BOOLEAN) EXCEPT !.recovery_cp = RecoveryCps]

NextLoad ==
    \/ NotLoaded /\ filemap = {} /\ LoadBegin
    \/ LoadReadPage
    \/ LoadWait
    \/ LoadChunk
    \/ LoadUnlock
    \/ LoadAlloc
    \/ LoadFinish
    \/ \E p \in DOMAIN io : IoComplete(p)

SpecLoad == InitLoad /\ [][NextLoad]_vars

\* ------------------------------------------------------------------------
\* SpecStorage: one writer of a chunk of either storage page, the unplug
\* caller and the daemon, over a bitmap file whose block writes may fail.
\* ------------------------------------------------------------------------
InitStorageSpec ==
    /\ InitService({1}, 0, 0)
    /\ mddev = Array(TRUE, 0)
    /\ env = Callers({<<0, 1>>, <<2, 1>>}, {FALSE}, {TRUE}, {TRUE})

NextStorage ==
    \/ \E w \in DOMAIN wr : WriterActions(w)
    \/ UnplugActions
    \/ UnplugKickWait
    \/ DaemonActions
    \/ DaemonKickWait
    \/ \E p \in DOMAIN io : IoComplete(p)

SpecStorage == InitStorageSpec /\ [][NextStorage]_vars

\* ------------------------------------------------------------------------
\* SpecMembers: the writer and the unplug caller over a bitmap kept on the
\* member devices, laid out in one of the ways of Layouts, with a cluster
\* lock that md_lock_super may fail to obtain.
\* ------------------------------------------------------------------------
\* The member devices of the array.  With bitmap_info.offset = 1 a member
\* with its data before the metadata takes every page, and a member with its
\* metadata at 0 and its data at 3 takes page 0 and not page 1.
Layouts ==
    { <<Member(0, 3, TRUE)>>,
      <<Member(InitChunks, 0, TRUE), Member(0, 3, TRUE)>>,
      <<Member(0, 3, FALSE), Member(InitChunks, 0, TRUE)>> }

InitMembers ==
    /\ InitService({1}, 0, 0)
    /\ \E rdevs \in Layouts : mddev = [Array(FALSE, 0) EXCEPT !.rdevs = rdevs]
    /\ env = [Callers({<<0, 1>>, <<2, 1>>}, {FALSE}, {TRUE}, {TRUE})
                 EXCEPT !.locks = {"ok", "EAGAIN"}]

NextMembers ==
    \/ \E w \in DOMAIN wr : WriterActions(w)
    \/ UnplugActions
    \/ UnplugKickWait
    \/ \E p \in DOMAIN io : IoComplete(p)

SpecMembers == InitMembers /\ [][NextMembers]_vars

\* ------------------------------------------------------------------------
\* SpecEvents: a writer of chunk 0, the unplug caller and the daemon, while
\* the array moves its event counter up and down and calls bitmap_update_sb.
\* ------------------------------------------------------------------------
MaxEvents == 2

InitEvents ==
    /\ InitService({1}, 0, 0)
    /\ mddev = Array(FALSE, 0)
    /\ env = [Callers({<<0, 1>>}, {FALSE}, {TRUE}, {TRUE})
                 EXCEPT !.events = 1..MaxEvents]

NextEvents ==
    \/ \E w \in DOMAIN wr : WriterActions(w)
    \/ UnplugActions
    \/ DaemonActions
    \/ \E p \in DOMAIN io : IoComplete(p)
    \/ ArrayEvents
    \/ UpdateSb
    \/ LoadWait

SpecEvents == InitEvents /\ [][NextEvents]_vars

\* ------------------------------------------------------------------------
\* SpecPages: the life of the counter pages.  Two writers of chunk 0 that
\* race in bitmap_checkpage, with an allocator that may fail at any call
\* (hijacking the slot); the unplug caller; the daemon, whose pass takes
\* counters to 0 and releases the pages; bitmap_resize to a device of two
\* counter pages.
\* ------------------------------------------------------------------------
InitPages ==
    /\ InitService({1, 2}, 0, 0)
    /\ mddev = Array(FALSE, 0)
    /\ env = [Callers({<<0, 1>>}, {FALSE}, {TRUE}, BOOLEAN)
                 EXCEPT !.sizes = {InitChunks + 2}, !.shifts = {0}]

NextPages ==
    \/ \E w \in DOMAIN wr : WriterActions(w)
    \/ UnplugActions
    \/ DaemonActions
    \/ \E p \in DOMAIN io : IoComplete(p)
    \/ Resize

SpecPages == InitPages /\ [][NextPages]_vars

\* ------------------------------------------------------------------------
\* Cluster locks: bitmap_lock_sync, bitmap_unlock_sync and the callbacks the
\* lock manager runs, bitmap_ast and bitmap_bast.
\* res.lock[r] is the dlm_lock_resource of index r: pc: where its caller
\* is; ast: "due" once dlm_lock or dlm_unlock has accepted the request,
\* "run" once the completion callback has run for it; granted: the lock
\* manager has granted the lock and has not yet released it.
\* ------------------------------------------------------------------------
DLM_LOCK_CR == "CR"
DLM_LOCK_PW == "PW"
DLM_LOCK_EX == "EX"
DLM_EUNLOCK == "EUNLOCK"

LockRes(mode) ==
    [mode |-> mode, finished |-> 0, sb_status |-> "ok", pc |-> "idle",
     ast |-> "none", granted |-> FALSE]

lockVars == <<countsVars, storeVars, sbVars, flags, allclean, need_sync,
              events_cleared, behindVars, mddev, sy, wr, bulk, dm, up,
              super_lock, mutex, freed>>

\* exist_in_avail_bitmap / exist_in_reclaim_bitmap (lines 1781-1790,
\* 1807-1816): the slot that holds num, or -1
RECURSIVE ExistIn(_, _, _)
ExistIn(vec, num, i) ==
    IF i > Len(vec) THEN -1
    ELSE IF vec[i] = num THEN i - 1
    ELSE ExistIn(vec, num, i + 1)

\* the first free slot of the vector from slot i on, or -1
RECURSIVE FreeSlot(_, _)
FreeSlot(vec, i) ==
    IF i > Len(vec) THEN -1
    ELSE IF vec[i] = -1 THEN i - 1
    ELSE FreeSlot(vec, i + 1)

\* bitmap_add_avail_bitmap / bitmap_add_reclaim_bitmap (lines 1792-1806,
\* 1818-1833): the vector afterwards
AddTo(vec, num) ==
    IF ExistIn(vec, num, 1) >= 0 \/ FreeSlot(vec, 1) < 0 THEN vec
    ELSE [vec EXCEPT ![FreeSlot(vec, 1) + 1] = num]

\* bitmap_lock_sync, lines 1922-1933: dlm_lock accepts the request or
\* refuses it
LockSync(r) ==
    /\ res.lock[r].pc \in {"idle", "failed"}
    /\ ~res.lock[r].granted
    /\ \E ret \in env.locks :
         res' = [res EXCEPT
                    !.lock[r].finished = 0,
                    !.lock[r].pc = IF ret = "ok" THEN "wait" ELSE "failed",
                    !.lock[r].ast = IF ret = "ok" THEN "due" ELSE "none"]
    /\ UNCHANGED <<lockVars, env>>

\* bitmap_unlock_sync, lines 1940-1951
UnlockSync(r) ==
    /\ res.lock[r].pc = "locked"
    /\ \E ret \in env.locks :
         res' = [res EXCEPT
                    !.lock[r].finished = 0,
                    !.lock[r].pc = IF ret = "ok" THEN "unwait" ELSE "locked",
                    !.lock[r].ast = IF ret = "ok" THEN "due" ELSE @]
    /\ UNCHANGED <<lockVars, env>>

\* the lock manager completes the request of resource r and runs bitmap_ast
\* (lines 1852-1882): the lock was granted or refused (sb_status), or the
\* unlock is done
Ast(r) ==
    /\ res.lock[r].ast = "due"
    /\ LET l == res.lock[r]
           unlock == l.pc = "unwait"
       IN  \E status \in (IF unlock THEN {DLM_EUNLOCK} ELSE env.locks) :
             LET ok == status = "ok"
                 r1 == [res EXCEPT
                           !.lock[r].finished = 1,
                           !.lock[r].sb_status = status,
                           !.lock[r].ast = "run",
                           !.lock[r].granted = IF unlock THEN FALSE ELSE ok]
             IN  res' = IF ok /\ l.mode = DLM_LOCK_CR
                        THEN [r1 EXCEPT !.avail_bitmap = AddTo(@, r)]
                        ELSE IF ok /\ l.mode = DLM_LOCK_EX
                        THEN [r1 EXCEPT !.used = r]
                        ELSE r1
    /\ UNCHANGED <<lockVars, env>>

\* another node asks for the lock this node was granted: the lock manager
\* runs bitmap_bast (lines 1884-1907)
Bast(r) ==
    /\ res.lock[r].granted
    /\ LET l == res.lock[r]
           r1 == [res EXCEPT !.lock[r].finished = 2]
           index == ExistIn(res.avail_bitmap, r, 1)
       IN  res' = IF l.mode = DLM_LOCK_CR
                  THEN [r1 EXCEPT
                           !.reclaim_bitmap = AddTo(@, r),
                           !.avail_bitmap =
                               IF index >= 0
                               THEN [@ EXCEPT ![index + 1] = -1] ELSE @]
                  ELSE r1
    /\ UNCHANGED <<lockVars, env>>

\* wait_event(&res->waiter, res->finished == 1) lets the caller go on
\* (lines 1936, 1953) and the call returns res->lksb.sb_status
LockWake(r) ==
    /\ res.lock[r].pc \in {"wait", "unwait"}
    /\ res.lock[r].finished = 1
    /\ res' = [res EXCEPT
                  !.lock[r].pc =
                      IF res.lock[r].pc = "unwait" THEN "idle"
                      ELSE IF res.lock[r].sb_status = "ok" THEN "locked"
                      ELSE "failed"]
    /\ UNCHANGED <<lockVars, env>>

\* ------------------------------------------------------------------------
\* SpecLock: the lock resources of the nodes' bitmaps, each in any of the
\* three modes, locked and unlocked synchronously while the lock manager
\* delivers its callbacks.  The lock manager runs the completion callback
\* of every request it accepted, and a caller whose wait condition stays
\* true is scheduled.
\* ------------------------------------------------------------------------
Nodes == 2

LockModes == {DLM_LOCK_CR, DLM_LOCK_PW, DLM_LOCK_EX}

InitLock ==
    /\ InitBitmap(InitChunks, {1}, 0, 0)
    /\ mddev = Array(FALSE, 0)
    /\ env = [Callers({}, {}, {}, {}) EXCEPT !.locks = {"ok", "EAGAIN"}]
    /\ \E modes \in [0..(Nodes - 1) -> LockModes] :
         res = [lock |-> [r \in 0..(Nodes - 1) |-> LockRes(modes[r])],
                avail_bitmap |-> [i \in 1..Nodes |-> -1],
                reclaim_bitmap |-> [i \in 1..Nodes |-> -1],
                used |-> -1]

NextLock ==
    \E r \in 0..(Nodes - 1) :
       \/ LockSync(r)
       \/ UnlockSync(r)
       \/ Ast(r)
       \/ Bast(r)
       \/ LockWake(r)

LockFairness ==
    \A r \in 0..(Nodes - 1) : WF_vars(Ast(r)) /\ WF_vars(LockWake(r))

SpecLock == InitLock /\ [][NextLock]_vars /\ LockFairness

\* ------------------------------------------------------------------------
\* bitmap_destroy
\* ------------------------------------------------------------------------
\* lines 1682-1689: the bitmap is disconnected from the array under
\* bitmap_info.mutex
DestroyDisconnect ==
    /\ mddev.bitmap
    /\ MutexFree
    /\ mddev' = [mddev EXCEPT !.bitmap = FALSE]
    /\ UNCHANGED <<countsVars, storeVars, sbVars, flags, allclean, need_sync,
                   events_cleared, behindVars, sy, wr, bulk, dm, up, kernVars>>

\* lines 1690-1696: the daemon is parked and bitmap_free (lines 1653-1678)
\* waits for the writes of the bitmap file and releases the memory
DestroyFree ==
    /\ ~mddev.bitmap
    /\ ~freed
    /\ mddev.file => IoIdle
    /\ dm' = [dm EXCEPT !.timeout = "forever"]
    /\ freed' = TRUE
    /\ UNCHANGED <<countsVars, storeVars, sbVars, flags, allclean, need_sync,
                   events_cleared, behindVars, mddev, sy, wr, bulk, up,
                   super_lock, mutex, res>>

\* ------------------------------------------------------------------------
\* SpecMutex: the daemon, bitmap_load and bitmap_destroy on a bitmap just
\* created whose image holds any bits.
\* ------------------------------------------------------------------------
InitMutex ==
    /\ \E bits \in SUBSET (0..(InitChunks - 1)) : InitCreated(InitChunks, bits, {})
    /\ mddev = Array(FALSE, 0)
    /\ env = [Callers({}, {}, {}, {TRUE}) EXCEPT !.recovery_cp = {0},
                                                 !.ticks = 2]

NextMutex ==
    \/ DaemonActions
    \/ LoadActions
    \/ \E p \in DOMAIN io : IoComplete(p)
    \/ DestroyDisconnect
    \/ DestroyFree

SpecMutex == InitMutex /\ [][NextMutex]_vars

\* ------------------------------------------------------------------------
\* bitmap_create with bitmap_read_sb, and the sysfs attribute chunksize
\* ------------------------------------------------------------------------
BITMAP_BLOCK_SHIFT == 9

\* is_power_of_2
IsPowerOf2(n) == n # 0 /\ \E k \in 0..30 : n = 2^k

\* ffz(~n): the index of the lowest bit set in n (n # 0)
RECURSIVE Ffz(_)
Ffz(n) == IF n % 2 = 1 THEN 0 ELSE 1 + Ffz(n \div 2)

\* the fields of the superblock on disk that bitmap_read_sb verifies: magic,
\* version: they hold an accepted value; daemon_sleep: seconds
DiskSb(magic, version, chunksize, daemon_sleep, write_behind) ==
    [magic |-> magic, version |-> version, chunksize |-> chunksize,
     daemon_sleep |-> daemon_sleep, write_behind |-> write_behind]

\* bitmap_read_sb, lines 636-654: why the superblock is refused, or "ok"
ReadSbReason(img) ==
    IF ~img.magic THEN "bad magic"
    ELSE IF ~img.version THEN "unrecognized superblock version"
    ELSE IF img.chunksize < 512 THEN "bitmap chunksize too small"
    ELSE IF ~IsPowerOf2(img.chunksize) THEN "bitmap chunksize not a power of 2"
    ELSE IF img.daemon_sleep < 1 THEN "daemon sleep period out of range"
    ELSE IF img.write_behind > COUNTER_MAX
    THEN "write-behind limit out of range (0 - 16383)"
    ELSE "ok"

\* bitmap_read_sb, lines 696-708 (out: and out_no_sb:): what it stores in
\* mddev->bitmap_info on its way out, whether it returns 0 or an error
ReadSbStores(md, img) ==
    [md EXCEPT !.chunksize = img.chunksize,
               !.max_write_behind = img.write_behind]

\* bitmap_create (lines 1703-1779) when the array has no bitmap: a bitmap is
\* allocated and bitmap_read_sb reads the superblock; when it is refused
\* the bitmap is freed again (error:), else bitmap_resize(init = 1) sizes
\* the counters for the chunksize read and the bitmap is connected
Create ==
    /\ ~mddev.bitmap
    /\ freed
    /\ mutex = "none"
    /\ dm.pc = "idle" /\ sy.pc = "idle" /\ up.pc = "idle" /\ Quiesced
    /\ IoIdle
    /\ \E img \in env.images :
         LET md1 == ReadSbStores(mddev, img)
             cshift == Ffz(md1.chunksize) - BITMAP_BLOCK_SHIFT
             nchunks == DivRoundUp(mddev.resync_max_sectors, 2^cshift)
         IN  IF ReadSbReason(img) # "ok"
             THEN /\ mddev' = md1
                  /\ UNCHANGED <<chunkshift, chunks, bp, missing_pages,
                                 storeVars, sb, flags, allclean, need_sync,
                                 events_cleared, dm, freed>>
             ELSE /\ mddev' = [md1 EXCEPT !.bitmap = TRUE,
                                          !.chunksize = 2^(cshift + BITMAP_BLOCK_SHIFT)]
                  /\ chunkshift' = cshift
                  /\ chunks' = nchunks
                  /\ bp' = [p \in 0..(CounterPagesOf(nchunks) - 1) |-> EmptySlot]
                  /\ missing_pages' = CounterPagesOf(nchunks)
                  /\ filemap' = {}
                  /\ filemap_attr' =
                        [p \in 0..(StoragePagesOf(nchunks, TRUE) - 1) |-> {}]
                  /\ io' = [p \in 0..(StoragePagesOf(nchunks, TRUE) - 1) |-> NoIo]
                  /\ disk' = disk
                  /\ sb' = disk_sb
                  /\ flags' = disk_sb.state
                  /\ events_cleared' = disk_sb.events_cleared
                  /\ allclean' = FALSE
                  /\ need_sync' = FALSE
                  /\ dm' = [dm EXCEPT !.timeout = "daemon_sleep"]
                  /\ freed' = FALSE
    /\ UNCHANGED <<env, disk_sb, behindVars, sy, wr, bulk, up, super_lock,
                   mutex, res>>

\* what is written to the attribute: digits: kstrtoul can convert it;
\* value: the number it converts to
SysfsBuf(digits, value) == [digits |-> digits, value |-> value]

\* chunksize_store, lines 2417-2433: what it returns
ChunksizeStoreRet(md, buf) ==
    IF md.bitmap THEN "EBUSY"
    ELSE IF ~buf.digits THEN "EINVAL"
    ELSE IF buf.value < 512 \/ ~IsPowerOf2(buf.value) THEN "EINVAL"
    ELSE "len"

\* chunksize_store: mddev->bitmap_info afterwards
ChunksizeStoreCfg(md, buf) ==
    IF ChunksizeStoreRet(md, buf) = "len"
    THEN [md EXCEPT !.chunksize = buf.value]
    ELSE md

ChunksizeStore ==
    /\ \E buf \in env.bufs : mddev' = ChunksizeStoreCfg(mddev, buf)
    /\ UNCHANGED <<countsVars, storeVars, sbVars, flags, allclean, need_sync,
                   events_cleared, behindVars, sy, wr, bulk, dm, up, kernVars>>

\* ------------------------------------------------------------------------
\* SpecConfig: the bitmap of an array is destroyed, the chunksize is set
\* through sysfs, and a bitmap is created again from a superblock that
\* holds any chunksize, good or bad; the daemon runs meanwhile.
\* ------------------------------------------------------------------------
Chunksizes == {0, 256, 512, 768, 1024, 2048}

InitConfig ==
    /\ InitService({1}, 0, 0)
    /\ mddev = Array(FALSE, 0)
    /\ env = [Callers({}, {}, {}, {}) EXCEPT
                 !.ticks = 2,
                 !.images = {DiskSb(magic, TRUE, c, 1, wb) :
                               magic \in BOOLEAN, c \in Chunksizes,
                               wb \in {0, COUNTER_MAX + 1}},
                 !.bufs = {SysfsBuf(d, c) : d \in BOOLEAN, c \in Chunksizes}]

NextConfig ==
    \/ Create
    \/ ChunksizeStore
    \/ DestroyDisconnect
    \/ DestroyFree
    \/ DaemonActions

SpecConfig == InitConfig /\ [][NextConfig]_vars

\* ------------------------------------------------------------------------
\* SpecFailed: SpecCounters with bitmap_resize called as md calls it, with no
\* resync under way.
\* ------------------------------------------------------------------------
\* no counter has RESYNC: every resync that __bitmap_start_sync began
\* (lines 1470-1473) was closed by bitmap_end_sync (line 1519)
NoResync == \A c \in 0..(chunks - 1) : ~RESYNC(CounterOf(c))

\* bitmap_resize on an array whose resync engine is idle; its loop carries
\* NEEDED only to the new counters (line 2147)
ResizeIdle == NoResync /\ Resize

NextFailed ==
    \/ \E w \in CounterWriters : WriterActions(w)
    \/ \E w \in CounterWriters : StartwriteWake(w)
    \/ EndwriteBulk
    \/ UnplugActions
    \/ DaemonActions
    \/ \E p \in DOMAIN io : IoComplete(p)
    \/ SyncActions
    \/ LoadActions
    \/ ResizeIdle

SpecFailed == InitCounters /\ [][NextFailed]_vars

\* ------------------------------------------------------------------------
\* sysfs: bitmap/can_clear
\* ------------------------------------------------------------------------
\* strncmp(buf, word, Len(word)) == 0; a buffer is the sequence of its
\* characters
StrnEq(buf, word) ==
    /\ Len(buf) >= Len(word)
    /\ SubSeq(buf, 1, Len(word)) = word

\* what is written to the attribute
CanClearBufs ==
    {<<"t", "r", "u", "e">>, <<"t", "r", "u", "e", "\n">>,
     <<"f", "a", "l", "s", "e">>, <<"t", "r", "u">>, <<>>}

\* can_clear_store (lines 2473-2486)
CanClearStore ==
    /\ \E buf \in CanClearBufs :
         IF ~mddev.bitmap THEN need_sync' = need_sync
         ELSE IF StrnEq(buf, <<"f", "a", "l", "s", "e">>) THEN need_sync' = TRUE
         ELSE IF StrnEq(buf, <<"t", "r", "u", "e">>)
         THEN (IF mddev.degraded THEN need_sync' = need_sync
               ELSE need_sync' = FALSE)
         ELSE need_sync' = need_sync
    /\ UNCHANGED <<countsVars, storeVars, sbVars, flags, allclean,
                   events_cleared, behindVars, mddev, sy, wr, bulk, dm, up,
                   kernVars>>

\* ------------------------------------------------------------------------
\* SpecCanClear: a writer of chunk 0, the unplug caller and the daemon on an
\* array with internal or with external metadata, degraded or not, whose
\* event counter moves and whose can_clear attribute is written.
\* ------------------------------------------------------------------------
InitCanClear ==
    /\ \E external \in BOOLEAN, degraded \in BOOLEAN :
         /\ mddev = [Array(FALSE, 0) EXCEPT !.external = external,
                                            !.degraded = degraded]
         /\ InitBitmapOn(InitChunks, {1}, 0, 0, ~external)
    /\ res = NoLocks
    /\ env = [Callers({<<0, 1>>}, {FALSE}, {TRUE}, {TRUE})
                 EXCEPT !.events = 1..MaxEvents, !.ticks = 2]

NextCanClear ==
    \/ \E w \in DOMAIN wr : WriterActions(w)
    \/ UnplugActions
    \/ DaemonActions
    \/ \E p \in DOMAIN io : IoComplete(p)
    \/ ArrayEvents
    \/ CanClearStore

SpecCanClear == InitCanClear /\ [][NextCanClear]_vars

\* ------------------------------------------------------------------------
\* bitmap_flush (lines 1628-1647): three runs of bitmap_daemon_work, each
\* with daemon_lastrun put back by twice daemon_sleep, then bitmap_update_sb.
\* sy.i: the runs begun.  The array calls it with its writes stopped.
\* ------------------------------------------------------------------------
FlushRuns == 3

\* the bitmap has nothing set aside: it is not STALE, no page is DIRTY and no
\* counter is flagged or counts a write
FlushClean ==
    /\ STALE \notin flags
    /\ \A p \in DOMAIN filemap_attr : DIRTY \notin filemap_attr[p]
    /\ \A c \in 0..(chunks - 1) : CounterOf(c) <= 2

\* lines 1628-1633
FlushBegin ==
    /\ sy.pc = "idle"
    /\ mddev.bitmap
    /\ Quiesced
    /\ up.pc = "idle"
    /\ dm.pc = "idle"
    /\ sy' = [IdleSync EXCEPT !.pc = "flush", !.clean = FlushClean]
    /\ UNCHANGED <<countsVars, storeVars, sbVars, flags, allclean, need_sync,
                   events_cleared, behindVars, mddev, wr, bulk, dm, up,
                   kernVars>>

\* lines 1638-1643: one call of bitmap_daemon_work, which finds its turn has
\* come (lines 1183-1198)
FlushRun ==
    /\ sy.pc = "flush"
    /\ sy.i < FlushRuns
    /\ dm.pc = "idle"
    /\ MutexFree
    /\ IF allclean
       THEN /\ dm' = [dm EXCEPT !.timeout = "forever"]
            /\ allclean' = allclean
            /\ mutex' = mutex
       ELSE /\ dm' = [dm EXCEPT !.pc = "promote", !.j = 0]
            /\ allclean' = TRUE
            /\ mutex' = "daemon"
    /\ sy' = [sy EXCEPT !.i = @ + 1]
    /\ UNCHANGED <<countsVars, storeVars, flags, need_sync, events_cleared,
                   behindVars, mddev, wr, bulk, up, sbVars,
                   super_lock, freed, res>>

\* line 1644: bitmap_update_sb, up to the wait of its write_page(sb_page, 1)
FlushUpdateSb ==
    /\ sy.pc = "flush"
    /\ sy.i = FlushRuns
    /\ dm.pc = "idle"
    /\ \E lk \in env.locks :
         LET u == UpdateSbFields(sb, events_cleared, flags)
             st == [io |-> io, flags |-> flags, sb |-> u[1],
                    events_cleared |-> u[2], wait |-> FALSE]
             w == IF HasSb THEN UpdateSbWrite(st, filemap, filemap_attr, lk)
                  ELSE st
         IN  /\ sb' = w.sb
             /\ events_cleared' = w.events_cleared
             /\ io' = w.io
             /\ flags' = w.flags
             /\ super_lock' = w.wait
             /\ sy' = [sy EXCEPT !.pc = IF w.wait THEN "flushsb" ELSE "flushed"]
    /\ UNCHANGED <<countsVars, filemap, filemap_attr, disk, disk_sb, allclean,
                   need_sync, behindVars, mddev, wr, bulk, dm, up,
                   mutex, freed, res>>

\* write_page(sb_page, 1), lines 290-296: the wait for the writes in flight,
\* and the kick that a write error brings
FlushWait ==
    /\ sy.pc = "flushsb"
    /\ IoIdle
    /\ IF WRITE_ERROR \in flags /\ STALE \notin flags
       THEN \E lk \in env.locks :
              LET k == Kick(WriteState(io, flags, sb, events_cleared),
                            filemap, filemap_attr, lk)
              IN  /\ io' = k.io
                  /\ flags' = k.flags
                  /\ sb' = k.sb
                  /\ events_cleared' = k.events_cleared
                  /\ super_lock' = k.wait
                  /\ sy' = sy
       ELSE /\ sy' = [sy EXCEPT !.pc = "flushed"]
            /\ super_lock' = FALSE
            /\ UNCHANGED <<flags, io, sb, events_cleared>>
    /\ UNCHANGED <<countsVars, filemap, filemap_attr, disk, disk_sb, allclean,
                   need_sync, behindVars, mddev, wr, bulk, dm, up,
                   mutex, freed, res>>

\* bitmap_flush has returned; the array goes on
FlushReturn ==
    /\ sy.pc = "flushed"
    /\ sy' = IdleSync
    /\ UNCHANGED <<countsVars, storeVars, sbVars, flags, allclean, need_sync,
                   events_cleared, behindVars, mddev, wr, bulk, dm, up,
                   kernVars>>

\* the daemon thread takes its turn; while bitmap_flush runs the calls of
\* bitmap_daemon_work are its own
DaemonThread == sy.pc \in {"idle", "updsb"} /\ DaemonStart

\* ------------------------------------------------------------------------
\* SpecFlush: a writer of chunk 0, the unplug caller, the daemon and the
\* caller of bitmap_flush on an array with internal or with external
\* metadata (the bitmap then lies past the data of the member) whose event
\* counter moves; page allocations may fail.
\* ------------------------------------------------------------------------
InitFlush ==
    /\ \E external \in BOOLEAN :
         /\ mddev = [Array(FALSE, 0) EXCEPT
                        !.external = external,
                        !.offset = IF external THEN PageSectors ELSE 1]
         /\ InitBitmapOn(InitChunks, {1}, 0, 0, ~external)
    /\ res = NoLocks
    /\ env = [Callers({<<0, 1>>}, {FALSE}, {TRUE}, BOOLEAN)
                 EXCEPT !.events = 1..MaxEvents]

NextFlush ==
    \/ \E w \in DOMAIN wr : WriterActions(w)
    \/ UnplugActions
    \/ DaemonThread
    \/ DaemonPromote
    \/ DaemonNeedSync
    \/ DaemonCounters
    \/ DaemonWriteout
    \/ DaemonDone
    \/ \E p \in DOMAIN io : IoComplete(p)
    \/ ArrayEvents
    \/ FlushBegin
    \/ FlushRun
    \/ FlushUpdateSb
    \/ FlushWait
    \/ FlushReturn

SpecFlush == InitFlush /\ [][NextFlush]_vars

\* ------------------------------------------------------------------------
\* The write-behind accounting of bitmap_startwrite, memory access by memory
\* access (lines 1341-1346): behind_writes is an atomic_t, behind_writes_used
\* an unsigned long read and written with no lock held.
\* ------------------------------------------------------------------------
\* line 1343: atomic_inc(&bitmap->behind_writes)
BehindInc(w) ==
    /\ wr[w].pc = "idle"
    /\ ~up.quiesce
    /\ sy.pc \in {"idle", "updsb"}
    /\ \E r \in env.ranges :
         wr' = [wr EXCEPT ![w] = [IdleWriter EXCEPT !.pc = "bw_read", !.r = r,
                                     !.off = r[1], !.sec = r[2],
                                     !.behind = TRUE]]
    /\ behind_writes' = behind_writes + 1
    /\ behind_peak' = (IF behind_writes + 1 > behind_peak
                       THEN behind_writes + 1 ELSE behind_peak)
    /\ UNCHANGED <<countsVars, storeVars, flags, allclean, need_sync,
                   events_cleared, behind_writes_used, mddev, sy, bulk, dm, up,
                   sbVars, kernVars>>

\* line 1344: bw = atomic_read(&bitmap->behind_writes)
BehindRead(w) ==
    /\ wr[w].pc = "bw_read"
    /\ wr' = [wr EXCEPT ![w].pc = "bw_test", ![w].bw = behind_writes]
    /\ UNCHANGED <<countsVars, storeVars, flags, allclean, need_sync,
                   events_cleared, behindVars, mddev, sy, bulk, dm, up,
                   sbVars, kernVars>>

\* line 1345: the test bw > bitmap->behind_writes_used
BehindTest(w) ==
    /\ wr[w].pc = "bw_test"
    /\ wr' = [wr EXCEPT ![w].pc = IF wr[w].bw > behind_writes_used
                                  THEN "bw_store" ELSE "sw",
                        ![w].bw = IF wr[w].bw > behind_writes_used
                                  THEN wr[w].bw ELSE 0]
    /\ UNCHANGED <<countsVars, storeVars, flags, allclean, need_sync,
                   events_cleared, behindVars, mddev, sy, bulk, dm, up,
                   sbVars, kernVars>>

\* line 1346: bitmap->behind_writes_used = bw
BehindStore(w) ==
    /\ wr[w].pc = "bw_store"
    /\ behind_writes_used' = wr[w].bw
    /\ wr' = [wr EXCEPT ![w].pc = "sw", ![w].bw = 0]
    /\ UNCHANGED <<countsVars, storeVars, flags, allclean, need_sync,
                   events_cleared, behind_writes, behind_peak, mddev, sy, bulk,
                   dm, up, sbVars, kernVars>>

\* behind_writes_used_reset (lines 2500-2506): a write to the sysfs attribute
\* max_backlog_used
BehindWritesUsedReset ==
    /\ behind_writes_used' = (IF mddev.bitmap THEN 0 ELSE behind_writes_used)
    /\ behind_peak' = (IF mddev.bitmap THEN 0 ELSE behind_peak)
    /\ UNCHANGED <<countsVars, storeVars, flags, allclean, need_sync,
                   events_cleared, behind_writes, mddev, sy, wr, bulk, dm, up,
                   sbVars, kernVars>>

\* ------------------------------------------------------------------------
\* SpecHighWater: two writers whose writes are write-behind, the unplug
\* caller and the writer of max_backlog_used.
\* ------------------------------------------------------------------------
InitHighWater ==
    /\ InitService({1, 2}, 0, 0)
    /\ mddev = Array(FALSE, 2)
    /\ env = Callers({<<0, 1>>}, {TRUE}, {TRUE}, {TRUE})

NextHighWater ==
    \/ \E w \in DOMAIN wr :
         \/ BehindInc(w)
         \/ BehindRead(w)
         \/ BehindTest(w)
         \/ BehindStore(w)
         \/ StartwriteStep(w)
         \/ StartwriteUnlock(w)
         \/ StartwriteAlloc(w)
         \/ EndwriteBegin(w)
         \/ EndwriteStep(w)
    \/ UnplugActions
    \/ \E p \in DOMAIN io : IoComplete(p)
    \/ BehindWritesUsedReset

SpecHighWater == InitHighWater /\ [][NextHighWater]_vars

\* ------------------------------------------------------------------------
\* The calls of md_lock_super and md_unlock_super that bitmap_update_sb,
\* write_page and write_sb_page make, in order: "lock" for a request that
\* obtains the lock, "fail" for one that returns an error, "unlock" for a
\* release.  lks[n]: what the n-th call of md_lock_super returns.
\* ------------------------------------------------------------------------
MaxLockCalls == 4

\* write_sb_page (lines 197-199, 256-263): both ways out past line 199, the
\* return at line 259 and bad_alignment, release once
WriteSbPageLocks(index, lk) ==
    IF lk # "ok" THEN <<"fail">>
    ELSE IF WriteSbLoop(mddev, 1, index, {}).ret = "EINVAL"
    THEN <<"lock", "unlock">>
    ELSE <<"lock", "unlock">>

RECURSIVE UpdateSbLocks(_, _, _)
\* write_page (lines 270-297) on page p with bitmap->flags fl; its
\* bitmap_file_kick (lines 840-863) calls bitmap_update_sb the first time
WritePageLocks(fl, p, lks, n) ==
    LET own == IF mddev.file THEN <<>> ELSE WriteSbPageLocks(p, lks[n])
        fl1 == IF mddev.file THEN fl ELSE WriteError(fl, p, lks[n])
        m == IF mddev.file THEN n ELSE n + 1
    IN  IF WRITE_ERROR \in fl1 /\ STALE \notin fl1
        THEN own \o UpdateSbLocks(fl1 \cup {STALE}, lks, m)
        ELSE own

\* bitmap_update_sb (lines 419-449)
UpdateSbLocks(fl, lks, n) ==
    IF ~mddev.bitmap \/ ~HasSb THEN <<>>
    ELSE IF lks[n] # "ok" THEN <<"fail">>
    ELSE <<"lock">> \o WritePageLocks(fl, 0, lks, n + 1) \o <<"unlock">>

\* ------------------------------------------------------------------------
\* The references write_sb_page holds on the member devices: pend[k] is what
\* the traversal has added to rdev->nr_pending of member k.
\* ------------------------------------------------------------------------
\* next_active_rdev (lines 158-187) called with member prev (0: NULL):
\* <<the member returned (0: NULL), pend afterwards>>
NextActiveRdev(md, prev, pend) ==
    LET released == IF prev = 0 THEN pend ELSE [pend EXCEPT ![prev] = @ - 1]
        rdev == ReadMember(md, prev + 1)
    IN  IF rdev = 0 THEN <<0, released>>
        ELSE <<rdev, [released EXCEPT ![rdev] = @ + 1]>>

\* the loop of write_sb_page from the member after prev on (lines 201-253),
\* left at its end or by the goto bad_alignment
RECURSIVE WriteSbRefs(_, _, _, _)
WriteSbRefs(md, prev, index, pend) ==
    LET n == NextActiveRdev(md, prev, pend)
    IN  IF n[1] = 0 THEN n[2]
        ELSE IF BadAlignment(md, md.rdevs[n[1]], index, SbPageSectors(index))
        THEN n[2]
        ELSE WriteSbRefs(md, n[1], index, n[2])

\* write_sb_page (lines 189-264): lk is what md_lock_super returns
WriteSbPageRefs(index, lk) ==
    LET none == [k \in DOMAIN mddev.rdevs |-> 0]
    IN  IF lk # "ok" THEN none ELSE WriteSbRefs(mddev, 0, index, none)

\* ------------------------------------------------------------------------
\* Properties
\* ------------------------------------------------------------------------
\* C1 (write-intent barrier): once the unplug that follows a returned
\* startwrite has returned with the bitmap not STALE, every chunk the write
\* covers has its bit set in the storage page and written to disk, whatever
\* the mode of the page slot.
C1_WriteIntentBarrier ==
    \A w \in DOMAIN wr :
        (wr[w].pc = "data" /\ wr[w].safe) =>
            /\ Covered(w) \subseteq filemap
            /\ Covered(w) \subseteq disk

\* C3 (set bits are accounted for): every chunk whose bit is set in the
\* storage image has a counter > 0 (NEEDED included) or lies on a storage
\* page that is PENDING or NEEDWRITE; chunks of a hijacked slot included.
C3_SetBitAccounted ==
    \A c \in filemap :
        \/ COUNTER(CounterOf(c)) > 0
        \/ NEEDED(CounterOf(c))
        \/ PENDING \in filemap_attr[BitPage(c)]
        \/ NEEDWRITE \in filemap_attr[BitPage(c)]

\* bitmap_unplug returns from its loop (not through bitmap_file_kick)
UnplugReturns == up.pc = "loop" /\ up'.pc = "idle"

\* the storage page of chunk c is neither DIRTY nor NEEDWRITE after the step
PageSettled(c) ==
    /\ DIRTY \notin filemap_attr'[BitPage(c)]
    /\ NEEDWRITE \notin filemap_attr'[BitPage(c)]

\* C4 as stated (flush closure): when unplug returns without a write error,
\* no page with DIRTY and NEEDWRITE clear still holds a bit change, set or
\* cleared, that was made before the unplug started and is not on disk.
C4_FlushClosure ==
    [][(UnplugReturns /\ WRITE_ERROR \notin flags') =>
          \A c \in 0..(chunks - 1) :
              PageSettled(c) =>
                  /\ (c \in up.sets /\ c \in filemap') => c \in disk'
                  /\ (c \in up.clrs /\ c \notin filemap') => c \notin disk']_vars

\* C4 amended (flush closure for set bits): when unplug returns without a
\* write error, no page with DIRTY and NEEDWRITE clear still holds a bit
\* that was set before the unplug started and is not on disk.
C4_FlushClosureSet ==
    [][(UnplugReturns /\ WRITE_ERROR \notin flags') =>
          \A c \in 0..(chunks - 1) :
              PageSettled(c) =>
                  ((c \in up.sets /\ c \in filemap') => c \in disk')]_vars

\* an unplug that began with set bits not on disk, has passed every page
\* while the daemon cleared a bit, and is about to return
C4_Witness ==
    /\ up.pc = "loop"
    /\ up.i \notin DOMAIN filemap_attr
    /\ up.sets # {}
    /\ up.sets \subseteq disk
    /\ disk \ filemap # {}
    /\ WRITE_ERROR \notin flags

\* the last write in flight finishes its endwrite
LastEndwrite ==
    /\ \E w \in DOMAIN wr : wr[w].pc = "ew"
    /\ \A w \in DOMAIN wr : wr'[w].pc = "idle"

\* C5 as stated (startwrite/endwrite balance): once n startwrite calls on a
\* chunk have been matched by n successful endwrite calls, with no daemon
\* tick, the counter is back at the value it had before, whatever that was.
C5_Balance ==
    [][LastEndwrite => CounterOf(0)' = env.prior]_vars

\* C5 amended: the counter is back at its prior value when that value had a
\* count of 2 or more; from 0 or 1 it ends at 2.
C5_BalanceFromTwo ==
    [][LastEndwrite =>
          CounterOf(0)' = (IF COUNTER(env.prior) >= 2 THEN env.prior ELSE 2)]_vars

\* two writes in flight on a chunk that needed a resync, both in endwrite
C5_Witness ==
    /\ \A w \in DOMAIN wr : wr[w].pc = "ew"
    /\ NEEDED(env.prior)
    /\ CounterOf(0) = env.prior + 2

\* the counter page of chunk c carries the pending hint
PendingHint(c) == bp[PageOfChunk(c)].pending

\* the steps of the lifecycle up to the endwrite: startwrite has returned
\* (counter 3, bit set, page DIRTY until the unplug takes it), the unplug
\* has returned (page not DIRTY, bit on disk), endwrite has returned
\* (counter 2, pending)
LifecycleWrite ==
    /\ \A c \in Covered(1) :
          /\ wr[1].pc \in {"flying", "plugged", "data"} =>
                CounterOf(c) = 3 /\ c \in filemap
          /\ wr[1].pc = "flying" => DIRTY \in filemap_attr[BitPage(c)]
          /\ wr[1].pc = "data" =>
                DIRTY \notin filemap_attr[BitPage(c)] /\ c \in disk
    /\ (wr[1].pc = "idle" /\ ~Untouched /\ dm.ticks = 0 /\ dm.pc = "idle") =>
          \E c \in filemap : CounterOf(c) = 2 /\ PendingHint(c)

\* the daemon has completed exactly n passes since the endwrite
AfterTicks(n) == dm.pc = "idle" /\ dm.ticks = n

\* C6 as stated (clean write lifecycle): from counter 0, startwrite gives
\* counter 3 with the bit set and the page DIRTY; unplug writes the page and
\* clears DIRTY; endwrite gives counter 2 and marks pending; after exactly
\* two daemon passes the counter is 0, the bit is cleared and the page with
\* the cleared bit has been written to disk.
C6_Lifecycle ==
    /\ LifecycleWrite
    /\ AfterTicks(2) => AllCountersZero /\ filemap = {} /\ disk = {}

\* C6 amended: after exactly two daemon passes the counter is 0 and the bit
\* is cleared in the storage page, which is PENDING and still unwritten;
\* the third pass submits the page, and the cleared bit is on disk once
\* that write has completed.
C6_LifecycleThreeTicks ==
    /\ LifecycleWrite
    /\ AfterTicks(2) =>
          /\ AllCountersZero /\ filemap = {}
          /\ \E c \in disk : filemap_attr[BitPage(c)] = {PENDING}
    /\ (AfterTicks(3) /\ IoIdle) => AllCountersZero /\ filemap = {} /\ disk = {}

\* the third pass is over and its write has landed
C6_Witness == AfterTicks(3) /\ IoIdle /\ allclean /\ disk = {}

\* the writers whose increment of the counter of chunk 0 is in place
Admitted == {w \in DOMAIN wr : wr[w].pc \in {"flying", "plugged", "data", "ew"}}

\* writer w suspends: the step from the test of line 1363 into the sleep
Suspends(w) == wr[w].pc = "sw" /\ wr'[w].pc = "wait"

C8_OneEndwriteOneWriter ==
    /\ COUNTER(CounterOf(0)) = 2 + bulk + Cardinality(Admitted)
    /\ COUNTER(CounterOf(0)) <= COUNTER_MAX
    /\ Cardinality(Admitted) <= (COUNTER_MAX - 2) - bulk

\* one write has ended, one of the two suspended writers has completed its
\* increment and the other sleeps again before a full counter
C8_Witness ==
    /\ bulk = COUNTER_MAX - 3
    /\ \E w \in OverflowWriters :
          /\ wr[w].pc = "flying"
          /\ \A v \in OverflowWriters \ {w} : wr[v].pc = "wait" /\ ~wr[v].woken
    /\ COUNTER(CounterOf(0)) = COUNTER_MAX

\* C9 (write-behind budget): behind_writes never exceeds max_write_behind; a
\* startwrite flagged write-behind that would exceed the limit suspends
\* instead of incrementing the gauge.
C9_BehindBudget == behind_writes <= mddev.max_write_behind

\* bitmap_resize has swapped the counters in this step
Resized == ~up.quiesce /\ up'.quiesce

\* block lay on the old device and the counter of its old chunk had NEEDED
OldNeeded(block) ==
    /\ block < chunks * (2^chunkshift)
    /\ NEEDED(CounterOf(block \div (2^chunkshift)))

\* the blocks of chunk c of the new map
NewBlocks(c) == {b \in 0..(chunks' * (2^chunkshift') - 1) : b \div (2^chunkshift') = c}

\* the counter that stands for chunk c of the new map
NewCounterOf(c) ==
    IF CheckpageEntry(bp', PageOfChunk(c), FALSE) = "ok"
    THEN GetCounter(bp', chunkshift', c * (2^chunkshift'))
    ELSE 0

\* C10 (resize keeps and extends NEEDED): after bitmap_resize with init = 0,
\* every chunk of the new map that overlaps an old chunk with NEEDED has
\* NEEDED, and every chunk of the new map that lies beyond the old end of
\* the device has NEEDED.
C10_ResizeNeeded ==
    [][Resized =>
          \A c \in 0..(chunks' - 1) :
              /\ (\E b \in NewBlocks(c) : OldNeeded(b)) => NEEDED(NewCounterOf(c))
              /\ (\A b \in NewBlocks(c) : b >= chunks * (2^chunkshift)) =>
                    NEEDED(NewCounterOf(c))]_vars

\* the counters that the page slots hold: <<page, index into cells>>
AllCells ==
    {x \in (DOMAIN bp) \X (1..PAGE_COUNTER_RATIO) : x[2] \in DOMAIN bp[x[1]].cells}

CounterRange == \A x \in AllCells : COUNTER(bp[x[1]].cells[x[2]]) <= COUNTER_MAX

\* a step stores c2 where c1 stood: the count field was full and went up by
\* one / was empty and went down by one
Carries(c1, c2) == COUNTER(c1) = RESYNC_MASK - 1 /\ c2 = Wrap(c1 + 1)

Borrows(c1, c2) == COUNTER(c1) = 0 /\ c2 = Wrap(c1 + (2^COUNTER_BITS) - 1)

\* the step leaves page slot p what it was (NULL, hijacked or a page) in the
\* same table
SlotStays(p) ==
    /\ chunkshift' = chunkshift
    /\ chunks' = chunks
    /\ p \in DOMAIN bp'
    /\ bp'[p].hijacked = bp[p].hijacked
    /\ bp'[p].alloc = bp[p].alloc

NoCarryNoBorrow ==
    \A x \in AllCells :
        SlotStays(x[1]) =>
            /\ ~Carries(bp[x[1]].cells[x[2]], bp'[x[1]].cells[x[2]])
            /\ ~Borrows(bp[x[1]].cells[x[2]], bp'[x[1]].cells[x[2]])

\* C2 (counter range): in every state reachable by startwrite, endwrite,
\* start_sync, end_sync, close_sync, daemon passes, load and resize, the
\* count field of every counter that a page slot holds is at most
\* COUNTER_MAX; and no step takes a counter whose count field is full up by
\* one (a carry into RESYNC) or one whose count field is empty down by one
\* (a borrow from the flags, or a wrap below zero).
C2_CounterRange == []CounterRange /\ [][NoCarryNoBorrow]_vars

\* one of the writes that saturated chunk 0 has ended and the writer's
\* startwrite has taken the counter back up to COUNTER_MAX
C2_Witness ==
    /\ env.prior = COUNTER_MAX
    /\ bulk = env.prior - 3
    /\ \E w \in DOMAIN wr : wr[w].pc = "flying" /\ 0 \in Covered(w)
    /\ COUNTER(CounterOf(0)) = COUNTER_MAX

\* bitmap_init_from_disk has returned 0 to a bitmap_load that found STALE set
LoadedStale == sy.pc = "init" /\ sy.i >= sy.chunks /\ sy.outofdate

\* C11 (STALE load): when bitmap_load has found STALE set and
\* bitmap_init_from_disk has returned 0, the counter of every chunk is
\* NEEDED | 2, whatever bits the image held, whatever the recovery
\* checkpoint and whether the array is degraded.
C11_StaleLoadsAllNeeded ==
    LoadedStale => \A c \in 0..(chunks - 1) : CounterOf(c) = NEEDED_MASK + 2


\* a step hands a storage page to the bitmap file or to a member device
PageWritten == \E p \in DOMAIN io : io'[p].busy /\ io'[p] # io[p]

\* a step sets a bit in a storage page or marks a page DIRTY
BitSet ==
    \/ ~(filemap' \subseteq filemap)
    \/ \E p \in DOMAIN filemap_attr :
         DIRTY \in filemap_attr'[p] /\ DIRTY \notin filemap_attr[p]

\* C12 (kick on I/O error): once the bitmap has been kicked (STALE is set
\* after a failed storage write) bit updates are dropped: no step sets a bit
\* or marks a page DIRTY, and no step of unplug or of the daemon hands a
\* page to storage.
C12_KickedDropsUpdates ==
    [][(STALE \in flags) => (~BitSet /\ ~PageWritten)]_vars

\* the two halves of C12_KickedDropsUpdates
C12_KickedSetsNoBit == [][(STALE \in flags) => ~BitSet]_vars
C12_KickedWritesNoPage == [][(STALE \in flags) => ~PageWritten]_vars


\* a step takes the DIRTY / NEEDWRITE marks of storage page p to write it
\* (bitmap_unplug line 967, bitmap_daemon_work line 1281)
TakenForWrite(p) ==
    /\ filemap_attr[p] \cap {DIRTY, NEEDWRITE} # {}
    /\ filemap_attr'[p] \cap {DIRTY, NEEDWRITE} = {}

\* C13 (write_page failures): a write_page that does not hand its page over
\* in full - the cluster lock was not obtained, or the alignment was
\* rejected - leaves WRITE_ERROR set and the image kicked (STALE).
C13_FailedWriteKicks ==
    [][\A p \in DOMAIN filemap_attr :
          TakenForWrite(p) =>
             \/ io'[p].busy /\ io'[p].ret = "ok"
             \/ {WRITE_ERROR, STALE} \subseteq flags']_vars


\* C20 (alignment refusal): a page for which write_sb_page returned the
\* alignment error has not been handed to any member device.
C20_RefusedPageUnwritten ==
    \A p \in DOMAIN io : io[p].ret = "EINVAL" => io[p].devs = {}


\* C14 (events_cleared): the superblock image on disk, written by
\* bitmap_update_sb or after the daemon stamped page 0, never holds an
\* events_cleared above its event counter.
C14_ImageClearedBounded == disk_sb.events_cleared <= disk_sb.events

\* every bitmap_update_sb leaves events_cleared at or below the array's event
\* counter, and equal to it after the counter regressed
C14_UpdateSbClamps ==
    [][(sy.pc = "idle" /\ sy'.pc = "updsb") =>
          /\ events_cleared' <= mddev.events
          /\ sb'.events_cleared <= sb'.events
          /\ (mddev.events < events_cleared => events_cleared' = mddev.events)]_vars


\* storage page p is queued for writing
Queued(p) == filemap_attr[p] \cap {DIRTY, NEEDWRITE} # {}

\* C15 (superblock first): while page 0 is queued for writing (DIRTY or
\* NEEDWRITE) no step of unplug or of the daemon takes another queued page
\* and writes it.
C15_SuperblockFirst ==
    [][\A p \in DOMAIN filemap_attr \ {0} : ~(Queued(0) /\ TakenForWrite(p))]_vars


\* C16 (daemon parking): a producer's step that raises work for the daemon
\* (it clears allclean while the daemon is outside bitmap_daemon_work) leaves
\* the worker timeout at daemon_sleep, so that the daemon is not parked while
\* work exists.
C16_ProducersRearm ==
    [][(allclean /\ ~allclean' /\ dm.pc = "idle") => dm'.timeout = "daemon_sleep"]_vars

\* the daemon sets the worker timeout to "forever" only when allclean holds
C16_ParksOnlyAllclean ==
    [][(dm.timeout # "forever" /\ dm'.timeout = "forever") => allclean]_vars


\* the page slots that hold an allocated counter page
AllocatedSlots == {p \in DOMAIN bp : bp[p].alloc}

\* C17 (page accounting): missing_pages plus the number of page slots that
\* hold an allocated counter page equals counts.pages.
C17_MissingPages ==
    missing_pages + Cardinality(AllocatedSlots) = Cardinality(DOMAIN bp)

\* the daemon has just taken the last counter of a page to 0 and cleared its
\* bit: bitmap_checkfree has emptied the slot a write had filled
C17_Witness ==
    /\ dm.pc = "writeout"
    /\ \E p \in DOMAIN filemap_attr : PENDING \in filemap_attr[p]
    /\ \A c \in 0..(chunks - 1) : CounterOf(c) = 0
    /\ AllocatedSlots = {}
    /\ missing_pages = Cardinality(DOMAIN bp)


\* the count of slot p drops to zero in a step that keeps the page table
SlotEmptied(p) ==
    /\ ~(up.pc = "idle" /\ up'.quiesce)
    /\ p \in DOMAIN bp'
    /\ bp[p].count > 0
    /\ bp'[p].count = 0

\* bitmap_checkfree has left slot p empty
SlotReleased(p) == ~bp'[p].hijacked /\ ~bp'[p].alloc /\ bp'[p].cells = <<0, 0>>

\* no slot is both hijacked and holding an allocated page
NoHijackedOwner == \A p \in DOMAIN bp : ~(bp[p].hijacked /\ bp[p].alloc)

\* C18 (page slots): a slot is never both hijacked and holding an allocated
\* page; when the count of a slot drops to zero the slot is left empty, and
\* missing_pages grows by one for each page released and not at all for a
\* hijacked slot whose flag is cleared.
C18_SlotRelease ==
    /\ []NoHijackedOwner
    /\ [][LET emptied == {p \in DOMAIN bp : SlotEmptied(p)}
          IN  /\ \A p \in emptied : SlotReleased(p)
              /\ emptied # {} =>
                   missing_pages' = missing_pages
                      + Cardinality({p \in emptied : ~bp[p].hijacked})]_vars

\* a hijacked slot is in use: the allocation failed and the slot's inline
\* counter holds a write in flight
C18_Witness ==
    \E p \in DOMAIN bp : bp[p].hijacked /\ bp[p].count > 0 /\ bp[p].cells[1] > 2


\* Writer w's startwrite has looked up the counter of its sector wr[w].off
\* in a slot that is hijacked (by this lookup's failed allocation, or
\* before) and has counted the write in it.
HijackedLookup(w) ==
    /\ wr[w].pc \in {"sw", "alloc"}
    /\ wr'[w].off > wr[w].off
    /\ bp'[PageOfChunk(wr[w].off \div (2^chunkshift))].hijacked

\* the sector lies in the low half of its counter page
LowHalf(off) ==
    (off \div (2^chunkshift)) % PAGE_COUNTER_RATIO < PAGE_COUNTER_RATIO \div 2

\* the coarse span of a hijacked slot's counter
CoarseSpan == 2^(chunkshift + PAGE_COUNTER_SHIFT - 1)

\* the slot owns no page, and the counter that was found and incremented is
\* the low inline cell for the low half of the page, the high one for the
\* high half
InlineCell(w) ==
    LET off == wr[w].off
        page == PageOfChunk(off \div (2^chunkshift))
        this == IF LowHalf(off) THEN 1 ELSE 2
    IN  /\ ~bp'[page].alloc
        /\ Len(bp'[page].cells) = 2
        /\ bp'[page].cells[this] # bp[page].cells[this]
        /\ bp'[page].cells[3 - this] = bp[page].cells[3 - this]

\* C19 as stated (hijacked slot lookup): the lookup finds the inline cell of
\* the sector's half, and for every sector in the low half of the page the
\* reported blocks is the coarse span.
C19_HijackedLookup ==
    [][\A w \in DOMAIN wr :
          HijackedLookup(w) =>
             /\ InlineCell(w)
             /\ LowHalf(wr[w].off) => wr'[w].off - wr[w].off = CoarseSpan]_vars

\* C19 amended: the lookup finds the inline cell of the sector's half, and
\* the reported blocks is what is left of the coarse span from the sector
\* on: the whole span only for the first sector of a half.
C19_HijackedLookupRest ==
    [][\A w \in DOMAIN wr :
          HijackedLookup(w) =>
             /\ InlineCell(w)
             /\ wr'[w].off - wr[w].off
                   = CoarseSpan - (wr[w].off % CoarseSpan)]_vars

\* a write of sectors 1 and 2 has been counted in both inline cells of the
\* hijacked slot: sector 1 in the low one, sector 2 in the high one
C19_Witness ==
    /\ bp[0].hijacked
    /\ bp[0].cells = <<3, 3>>
    /\ \E w \in DOMAIN wr : wr[w].pc = "flying" /\ wr[w].r = <<1, 2>>


\* a page is on its way to a member device
MemberWriteInFlight == \E p \in DOMAIN io : io[p].busy /\ io[p].devs # {}

\* C21 (cluster lock across page writes): while a page write to a member
\* device is in flight, from its issue to its completion, this node holds
\* the exclusive cluster lock, whether the write was issued with wait = 1
\* or with wait = 0.
C21_LockedUntilWritten == MemberWriteInFlight => super_lock


\* the completion callback has run for the lock request bitmap_lock_sync
\* dispatched for resource r, and the caller has not returned yet
GrantDelivered(r) == res.lock[r].pc = "wait" /\ res.lock[r].ast = "run"

\* bitmap_lock_sync has returned for resource r
LockReturned(r) == res.lock[r].pc \in {"locked", "failed"}

\* C22 (synchronous locking completes): once the grant callback has run for
\* a request that bitmap_lock_sync dispatched, the caller eventually returns,
\* whatever blocking callbacks are delivered for the resource meanwhile.
C22_LockSyncReturns ==
    \A r \in 0..(Nodes - 1) : GrantDelivered(r) ~> LockReturned(r)


\* bitmap_load is inside bitmap_init_from_disk
InitFromDisk == sy.pc \in {"init", "initwait", "initalloc"}

\* the daemon thread takes a step of bitmap_daemon_work
DaemonStep == dm' # dm /\ freed' = freed

\* C23 (daemon serialized by bitmap_info.mutex): the daemon is never inside
\* its work while bitmap_load is inside bitmap_init_from_disk, nor once
\* bitmap_destroy has disconnected the bitmap; every step of the daemon is
\* taken on a connected bitmap that has not been freed, outside
\* bitmap_init_from_disk, so that a tick that starts on a disconnected bitmap
\* changes nothing.
C23_DaemonSerialized ==
    /\ [](dm.pc # "idle" => mddev.bitmap /\ ~freed /\ ~InitFromDisk)
    /\ [][DaemonStep => mddev.bitmap /\ ~freed /\ ~InitFromDisk]_vars

\* the bitmap was loaded, the daemon has made a pass that left a counter
\* decayed to 1, and bitmap_destroy has freed the bitmap
C23_Witness ==
    /\ freed
    /\ dm.ticks >= 1
    /\ \E c \in 0..(chunks - 1) : CounterOf(c) = 1


\* a chunksize that may be configured
GoodChunksize(c) == c >= 512 /\ IsPowerOf2(c)

\* the step is bitmap_create refused by bitmap_read_sb because of the
\* chunksize of the superblock
ReadSbRejects ==
    /\ ~mddev.bitmap /\ freed
    /\ ~mddev'.bitmap
    /\ \E img \in env.images :
         /\ img.magic /\ img.version /\ ~GoodChunksize(img.chunksize)
         /\ ReadSbReason(img) # "ok"
         /\ mddev' = ReadSbStores(mddev, img)

\* whatever is written to the attribute, chunksize_store leaves the
\* configured chunksize alone when it returns an error, and it returns Busy
\* while a bitmap is active and an error for a bad value
C24_StoreKeepsChunksize ==
    \A buf \in env.bufs :
       /\ mddev.bitmap => ChunksizeStoreRet(mddev, buf) = "EBUSY"
       /\ ~GoodChunksize(buf.value) => ChunksizeStoreRet(mddev, buf) # "len"
       /\ ChunksizeStoreRet(mddev, buf) # "len" =>
             ChunksizeStoreCfg(mddev, buf).chunksize = mddev.chunksize

\* C24 (bad chunksize rejected): a chunksize below 512 or not a power of
\* two is refused by chunksize_store and by bitmap_read_sb, chunksize_store
\* returns Busy while a bitmap is active, and in every rejected case the
\* configured chunksize is what it was before.
C24_RejectedKeepsChunksize ==
    /\ []C24_StoreKeepsChunksize
    /\ [][ReadSbRejects => mddev'.chunksize = mddev.chunksize]_vars
\* ------------------------------------------------------------------------
\* C25: a failed write is kept until its resync completes
\* ------------------------------------------------------------------------
\* block s lies on the device of n chunks and its counter in b has NEEDED or
\* RESYNC
MarkedAt(b, cs, n, s) ==
    /\ s < n * (2^cs)
    /\ CheckpageEntry(b, PageOfChunk(s \div (2^cs)), FALSE) = "ok"
    /\ LET c == GetCounter(b, cs, s) IN NEEDED(c) \/ RESYNC(c)

\* get_counter returns the same counter for the blocks off and s
SameCounter(off, s) ==
    LET c1 == off \div (2^chunkshift)
        c2 == s \div (2^chunkshift)
    IN  /\ PageOfChunk(c1) = PageOfChunk(c2)
        /\ PageOfChunk(c1) \in DOMAIN bp
        /\ CellIndex(bp[PageOfChunk(c1)], c1) = CellIndex(bp[PageOfChunk(c2)], c2)

\* the step is an endwrite(success = 0) on the counter of block s
FailedEndwrite(s) ==
    \E w \in DOMAIN wr :
        /\ wr[w].pc = "ew"
        /\ ~wr[w].success
        /\ wr'[w] # wr[w]
        /\ SameCounter(wr[w].off, s)
        /\ bp' = EndwriteBody(bp, wr[w].off, wr[w].sec, FALSE)[1]

\* the step is a bitmap_end_sync(aborted) on the counter of block s
EndSyncOn(s, aborted) ==
    \E offset \in env.syncs :
        /\ SameCounter(offset, s)
        /\ bp' = EndSyncBody(bp, allclean, offset, aborted)[1]

\* the step completes a resync of block s: bitmap_end_sync(aborted = 0) on
\* its counter, by the resync engine, bitmap_close_sync or bitmap_load
SyncCompletes(s) ==
    \/ EndSyncOn(s, FALSE)
    \/ \E wide \in BOOLEAN : bp' = CloseSyncLoop(bp, allclean, 0, wide)[1]
    \/ sy.pc = "idle" /\ sy'.pc = "init"

PagePresent(off) ==
    CheckpageEntry(bp, PageOfChunk(off \div (2^chunkshift)), FALSE) = "ok"

\* C26 (start_sync): for every block of the device, __bitmap_start_sync
\* returns needed exactly when the page of its chunk is present and the
\* chunk's counter has RESYNC or NEEDED; a counter with NEEDED and without
\* RESYNC on an array that is not degraded gets RESYNC, loses NEEDED and
\* keeps its count, and no other counter changes; on a degraded array, or
\* with the page absent, the page pool is left as it was.
C26_StartSync ==
    \A off \in 0..(chunks * (2^chunkshift) - 1) :
        LET c == GetCounter(bp, chunkshift, off)
        IN  /\ StartSyncRet(bp, off) <=>
                  (PagePresent(off) /\ (RESYNC(c) \/ NEEDED(c)))
            /\ (PagePresent(off) /\ NEEDED(c) /\ ~RESYNC(c)) =>
                  LET b2 == StartSyncBody(bp, off, FALSE)
                      c2 == GetCounter(b2, chunkshift, off)
                  IN  /\ RESYNC(c2) /\ ~NEEDED(c2) /\ COUNTER(c2) = COUNTER(c)
                      /\ b2 = PutCounter(bp, chunkshift, off, c2)
            /\ StartSyncBody(bp, off, TRUE) = bp
            /\ ~PagePresent(off) =>
                  \A degraded \in BOOLEAN : StartSyncBody(bp, off, degraded) = bp

\* start_sync has acted on a failed write: a counter with RESYNC and without
\* NEEDED, beside a chunk whose counter has NEEDED only
C26_Witness ==
    \E off \in 0..(chunks * (2^chunkshift) - 1) :
        /\ PagePresent(off)
        /\ RESYNC(GetCounter(bp, chunkshift, off))
        /\ ~NEEDED(GetCounter(bp, chunkshift, off))
        /\ StartSyncRet(bp, off)


\* ------------------------------------------------------------------------
\* C27: bitmap_end_sync
\* ------------------------------------------------------------------------
\* the page of block off has its pending hint in b
PendingIn(b, off) == b[PageOfChunk(off \div (2^chunkshift))].pending

\* C27 as stated (end_sync): bitmap_end_sync on a counter with RESYNC clears
\* RESYNC and keeps the count; aborted with NEEDED not set, it sets NEEDED;
\* otherwise, if the count field is at most 2, it marks the page pending and
\* clears allclean.
C27_EndSyncAsStated ==
    \A off \in 0..(chunks * (2^chunkshift) - 1), aborted \in BOOLEAN :
        LET c == GetCounter(bp, chunkshift, off)
            e == EndSyncBody(bp, allclean, off, aborted)
            c2 == GetCounter(e[1], chunkshift, off)
        IN  (PagePresent(off) /\ RESYNC(c)) =>
                /\ ~RESYNC(c2)
                /\ COUNTER(c2) = COUNTER(c)
                /\ IF aborted /\ ~NEEDED(c) THEN NEEDED(c2)
                   ELSE COUNTER(c) <= 2 => (PendingIn(e[1], off) /\ ~e[2])

\* C27 (end_sync, amended): bitmap_end_sync changes nothing when the page is
\* absent or the counter has no RESYNC; on a counter with RESYNC it clears
\* RESYNC and keeps the count; aborted with NEEDED not set, it sets NEEDED
\* and touches nothing else; otherwise it keeps NEEDED as it was and, exactly
\* when the whole counter (flags and count) is then at most 2, that is with
\* NEEDED clear and a count of at most 2, marks the page pending and clears
\* allclean.
C27_EndSync ==
    \A off \in 0..(chunks * (2^chunkshift) - 1), aborted \in BOOLEAN :
        LET c == GetCounter(bp, chunkshift, off)
            e == EndSyncBody(bp, allclean, off, aborted)
            c2 == GetCounter(e[1], chunkshift, off)
            put == PutCounter(bp, chunkshift, off, c2)
        IN  IF ~PagePresent(off) \/ ~RESYNC(c) THEN e = <<bp, allclean>>
            ELSE /\ ~RESYNC(c2)
                 /\ COUNTER(c2) = COUNTER(c)
                 /\ IF aborted /\ ~NEEDED(c)
                    THEN NEEDED(c2) /\ e = <<put, allclean>>
                    ELSE /\ NEEDED(c2) = NEEDED(c)
                         /\ IF ~NEEDED(c) /\ COUNTER(c) <= 2
                            THEN e = <<SetPending(put, chunkshift, off), FALSE>>
                            ELSE e = <<put, allclean>>

\* a chunk under resync took a failed write and the daemon has passed: its
\* counter has RESYNC, NEEDED and a count of 2, its page is not pending and
\* allclean is set
C27_Witness ==
    \E off \in 0..(chunks * (2^chunkshift) - 1) :
        /\ PagePresent(off)
        /\ GetCounter(bp, chunkshift, off) = RESYNC_MASK + NEEDED_MASK + 2
        /\ ~PendingIn(bp, off)
        /\ allclean


\* ------------------------------------------------------------------------
\* C28: bitmap_close_sync
\* ------------------------------------------------------------------------
\* the counter that stands for chunk c in the page pool b: 0 when its page
\* slot has no counters
CounterIn(b, c) ==
    IF CheckpageEntry(b, PageOfChunk(c), FALSE) = "ok"
    THEN GetCounter(b, chunkshift, c * (2^chunkshift))
    ELSE 0

\* C28 (close_sync): in the page pool bitmap_close_sync leaves, no chunk of
\* the device has RESYNC, every chunk has the NEEDED flag and the count it
\* had before, and no page slot was allocated, hijacked or released,
\* whichever chunk size get_counter reports past the last slot.
C28_CloseSync ==
    \A wide \in BOOLEAN :
        LET e == CloseSyncLoop(bp, allclean, 0, wide)
        IN  /\ DOMAIN e[1] = DOMAIN bp
            /\ \A p \in DOMAIN bp :
                  /\ e[1][p].hijacked = bp[p].hijacked
                  /\ e[1][p].alloc = bp[p].alloc
                  /\ e[1][p].count = bp[p].count
            /\ \A c \in 0..(chunks - 1) :
                  /\ ~RESYNC(CounterIn(e[1], c))
                  /\ NEEDED(CounterIn(e[1], c)) = NEEDED(CounterOf(c))
                  /\ COUNTER(CounterIn(e[1], c)) = COUNTER(CounterOf(c))

\* the sweep has work: a chunk whose counter has RESYNC and NEEDED, on a
\* device with a second chunk that has neither
C28_Witness ==
    \E c, d \in 0..(chunks - 1) :
        /\ RESYNC(CounterOf(c)) /\ NEEDED(CounterOf(c))
        /\ ~RESYNC(CounterOf(d)) /\ ~NEEDED(CounterOf(d))


\* ------------------------------------------------------------------------
\* C29: the grace period of a counter within one pass of the daemon
\* ------------------------------------------------------------------------
\* the step is the daemon's pass over the counters (lines 1229-1262)
DaemonPass == dm.pc = "scan" /\ dm'.pc = "writeout"

\* one decay step of a counter: 2 to 1, 1 to 0
DecayOnce(v) == IF v = 2 THEN 1 ELSE IF v = 1 THEN 0 ELSE v

\* C29 (grace period): in one pass of the daemon over the counters, the
\* counter of every chunk stays as it is or takes one decay step, and a
\* chunk whose counter is 2 before the pass has a counter that is not 0 and
\* keeps its bit in the storage pages after it, on allocated and on hijacked
\* page slots.
C29_GracePeriod ==
    [][DaemonPass =>
          \A c \in 0..(chunks - 1) :
              /\ NewCounterOf(c) \in {CounterOf(c), DecayOnce(CounterOf(c))}
              /\ CounterOf(c) = 2 =>
                    /\ NewCounterOf(c) # 0
                    /\ (c \in filemap => c \in filemap')]_vars


\* ------------------------------------------------------------------------
\* C30: the daemon and need_sync
\* ------------------------------------------------------------------------
\* the step is the daemon's test of need_sync (lines 1210-1224), which comes
\* after the promotion of the pending pages and before the pass over the
\* counters
DaemonSyncTest == dm.pc = "promote" /\ dm'.pc = "scan"

\* C30 (need_sync holds the bits): a pass of the daemon over the counters
\* that finds need_sync set takes no counter to 0 and no bit out of the
\* storage pages; with internal metadata a pass of the daemon that comes to
\* its test with need_sync set clears it, puts events_cleared into the
\* superblock page and marks page 0 NEEDWRITE, before the pass over the
\* counters; with external metadata no step of the daemon clears need_sync.
C30_NeedSync ==
    [][/\ (DaemonPass /\ need_sync) =>
             /\ \A c \in 0..(chunks - 1) :
                   CounterOf(c) # 0 => NewCounterOf(c) # 0
             /\ filemap \subseteq filemap'
       /\ (DaemonSyncTest /\ need_sync /\ ~mddev.external) =>
             /\ ~need_sync'
             /\ sb'.events_cleared = events_cleared
             /\ NEEDWRITE \in filemap_attr'[0]
       /\ (dm' # dm /\ need_sync /\ mddev.external) => need_sync']_vars

\* on an array with external metadata the daemon has made two passes, no
\* write is in flight, need_sync is set, and chunk 0 still has its counter
\* and its bit
C30_Witness ==
    /\ mddev.external
    /\ need_sync
    /\ dm.pc = "idle"
    /\ dm.ticks >= 2
    /\ Quiesced
    /\ CounterOf(0) = 1
    /\ 0 \in filemap


\* ------------------------------------------------------------------------
\* C31: the pending hint of the counter pages
\* ------------------------------------------------------------------------
\* chunk c has a counter that the daemon has yet to decay: 1 or 2, no flag
Decaying(c) == CounterOf(c) \in {1, 2}

\* the page slots the daemon's pass skips: their pending hint is clear
Skipped == {p \in DOMAIN bp : ~bp[p].pending}

\* C31 (pending hint): every chunk whose counter is 1 or 2 lies on a page
\* slot whose pending hint is set, and a pass of the daemon over the
\* counters leaves the slots it skips, and the bits of their chunks in the
\* storage pages, as they were.
C31_PendingComplete ==
    /\ [](\A c \in 0..(chunks - 1) : Decaying(c) => bp[PageOfChunk(c)].pending)
    /\ [][DaemonPass =>
             \A p \in Skipped :
                 /\ bp'[p] = bp[p]
                 /\ \A c \in 0..(chunks - 1) :
                       PageOfChunk(c) = p => (c \in filemap <=> c \in filemap')]_vars


\* the daemon has made its pass over a pool in which a page slot that holds
\* counters has no pending hint and a chunk on another slot is decaying
C31_Witness ==
    /\ dm.pc = "writeout"
    /\ \E p \in Skipped : bp[p].count > 0
    /\ \E c \in 0..(chunks - 1) : Decaying(c)

\* ------------------------------------------------------------------------
\* C32: the counters bitmap_load leaves
\* ------------------------------------------------------------------------
\* bitmap_init_from_disk has returned 0 to a bitmap_load that found the
\* bitmap up to date: the storage pages hold the bits read from the image
LoadedFresh == sy.pc = "init" /\ sy.i >= sy.chunks /\ ~sy.outofdate

\* C32 (load sets the counters): when bitmap_init_from_disk has returned 0,
\* every chunk whose bit was set in the image and which ends at or after
\* start has NEEDED and a count of at least 2, and every chunk whose bit was
\* set and which ends before start has the counter 2, whatever the counters
\* were when bitmap_load was called.
C32_LoadSetsNeeded ==
    LoadedFresh =>
        \A c \in 0..(chunks - 1) :
            c \in filemap =>
                IF (c + 1) * (2^chunkshift) >= sy.start
                THEN NEEDED(CounterOf(c)) /\ COUNTER(CounterOf(c)) >= 2
                ELSE CounterOf(c) = 2


\* ------------------------------------------------------------------------
\* C33: the allocation race of bitmap_checkpage
\* ------------------------------------------------------------------------
\* the page slot that writer w's bitmap_checkpage is allocating for
AllocSlot(w) == bp[PageOfChunk(wr[w].off \div (2^chunkshift))]

\* C33 (checkpage race): whenever a caller of bitmap_checkpage comes back
\* from its allocation, with a page or without, whatever the other callers
\* have done to the slot meanwhile, the slot is left either allocated or
\* hijacked and not both, a page that is in place stays in place, the page
\* obtained is either installed or freed, and missing_pages goes down by one
\* exactly when the page is installed.
C33_CheckpageRace ==
    \A w \in DOMAIN wr :
        wr[w].pc = "alloc" =>
            \A got \in BOOLEAN :
                LET s == AllocSlot(w)
                    s2 == CheckpageInstall(s, got)
                    installed == s2.alloc /\ ~s.alloc
                IN  /\ s2.hijacked # s2.alloc
                    /\ s.alloc => s2 = s
                    /\ installed => got
                    /\ got => (installed # CheckpageFrees(s, got))
                    /\ CheckpageMissing(s, got, missing_pages)
                          = missing_pages - (IF installed THEN 1 ELSE 0)

\* the race is lost: a caller is still allocating for a slot that another
\* caller has hijacked or filled meanwhile
C33_Witness ==
    \E w \in DOMAIN wr :
        /\ wr[w].pc = "alloc"
        /\ AllocSlot(w).hijacked \/ AllocSlot(w).alloc
        /\ AllocSlot(w).count > 0


\* ------------------------------------------------------------------------
\* C34: the count of a page slot
\* ------------------------------------------------------------------------
\* the counters of slot s that are not 0
NonZeroCells(s) == {i \in DOMAIN s.cells : s.cells[i] # 0}

\* the step releases the page of slot p or clears its hijacked flag, in a
\* page table that stays in place
SlotDropped(p) ==
    /\ ~(up.pc = "idle" /\ up'.quiesce)
    /\ p \in DOMAIN bp'
    /\ bp[p].alloc \/ bp[p].hijacked
    /\ ~bp'[p].alloc /\ ~bp'[p].hijacked

\* C34 (slot count): the count of every page slot is the number of its
\* counters that are not 0 (of its inline counters, when it is hijacked),
\* and a step that releases the page of a slot or clears its hijacked flag
\* leaves no counter of the slot other than 0.
C34_SlotCount ==
    /\ [](\A p \in DOMAIN bp : bp[p].count = Cardinality(NonZeroCells(bp[p])))
    /\ [][\A p \in DOMAIN bp : SlotDropped(p) => NonZeroCells(bp'[p]) = {}]_vars

\* a hijacked slot and its count: one inline counter in use
C34_Witness ==
    \E p \in DOMAIN bp :
        bp[p].hijacked /\ bp[p].count = 1 /\ bp[p].cells[1] = 1


\* ------------------------------------------------------------------------
\* C35: bitmap_flush
\* ------------------------------------------------------------------------
\* bitmap_flush has returned
Flushed == sy.pc = "flushed"

\* every counter is 0, its bit is cleared in the storage pages, no page is
\* PENDING or NEEDWRITE, and every bit still set on disk lies on a page that
\* has been handed over for writing without it
FlushedOut ==
    /\ \A c \in 0..(chunks - 1) : CounterOf(c) = 0
    /\ filemap = {}
    /\ \A p \in DOMAIN filemap_attr :
         filemap_attr[p] \cap {PENDING, NEEDWRITE} = {}
    /\ \A c \in disk :
         LET p == BitPage(c) IN p \in DOMAIN io /\ io[p].busy /\ c \notin io[p].bits

\* C35 as stated (flush): when bitmap_flush returns, having been called on a
\* bitmap that was not STALE, with no write in flight, no DIRTY page and no
\* counter flagged NEEDED or RESYNC, every counter is 0, its bit is cleared,
\* the pages of the cleared bits have been written and no page is PENDING or
\* NEEDWRITE.
C35_FlushAsStated == (Flushed /\ sy.clean) => FlushedOut

\* ------------------------------------------------------------------------
\* C36: the high-water mark of the write-behind gauge
\* ------------------------------------------------------------------------
\* no writer is between the increment of behind_writes and the end of its
\* update of behind_writes_used
BehindSettled == \A w \in DOMAIN wr : wr[w].pc \notin {"bw_read", "bw_test", "bw_store"}

\* C36 (high-water mark): whenever no startwrite is in the middle of its
\* write-behind accounting, behind_writes_used is no less than the largest
\* value behind_writes has risen to since behind_writes_used was last reset.
C36_HighWater == BehindSettled => behind_writes_used >= behind_peak


\* ------------------------------------------------------------------------
\* C37: the counter of a chunk with writes in flight
\* ------------------------------------------------------------------------
\* writer w has a write in flight on chunk c: its startwrite has counted the
\* chunk and its endwrite has not yet come to it
Holds(w, c) ==
    /\ c \in Covered(w)
    /\ IF wr[w].pc \in {"flying", "plugged", "data"} THEN TRUE
       ELSE IF wr[w].pc \in {"sw", "alloc", "wait"}
       THEN (c + 1) * (2^chunkshift) <= wr[w].off
       ELSE IF wr[w].pc = "ew" THEN (c + 1) * (2^chunkshift) > wr[w].off
       ELSE FALSE

\* the writes in flight on chunk c
InFlight(c) ==
    Cardinality({w \in DOMAIN wr : Holds(w, c)}) + (IF c = 0 THEN bulk ELSE 0)

\* the chunks whose counter lies on a page that bitmap_checkpage allocated
OnAllocatedPage ==
    {c \in 0..(Cardinality(DOMAIN bp) * PAGE_COUNTER_RATIO - 1) :
        bp[PageOfChunk(c)].alloc}

\* C37 (in-flight accounting): the count field of a chunk on an allocated
\* page that has k > 0 writes in flight is k + 2, and a daemon pass leaves
\* the counter and the bit of such a chunk as they are and its page in place.
C37_InFlight ==
    /\ [](\A c \in OnAllocatedPage :
            InFlight(c) > 0 => COUNTER(CounterOf(c)) = InFlight(c) + 2)
    /\ [][DaemonPass =>
            \A c \in OnAllocatedPage :
               InFlight(c) > 0 =>
                  /\ PageOfChunk(c) \in DOMAIN bp'
                  /\ bp'[PageOfChunk(c)].alloc
                  /\ CounterOf(c)' = CounterOf(c)
                  /\ (c \in filemap) = (c \in filemap')]_vars

\* the daemon scans the counters while a chunk of an allocated page has two
\* writes in flight and the pending hint of its page is set
C37_Witness ==
    /\ dm.pc = "scan"
    /\ \E c \in OnAllocatedPage :
         /\ InFlight(c) = 2
         /\ bp[PageOfChunk(c)].pending
         /\ c \in filemap


\* ------------------------------------------------------------------------
\* C38: the storage bits after bitmap_resize
\* ------------------------------------------------------------------------
\* the unplug that bitmap_resize calls returns and the array is resumed
Resumed == up.quiesce /\ ~up'.quiesce

\* C38 (resize sets the bits): when bitmap_resize with init = 0 has built the
\* new counters, every chunk of the new map whose counter has NEEDED has its
\* bit set in the new storage pages and every storage page is DIRTY; and
\* when its unplug returns without a write error the bits are on disk.
C38_ResizeBits ==
    /\ [][Resized =>
            /\ \A c \in 0..(chunks' - 1) :
                  NEEDED(NewCounterOf(c)) => c \in filemap'
            /\ \A p \in DOMAIN filemap_attr' : DIRTY \in filemap_attr'[p]]_vars
    /\ [][(Resumed /\ flags' = {}) => filemap' \subseteq disk']_vars


\* ------------------------------------------------------------------------
\* C39: the discipline of the cluster lock
\* ------------------------------------------------------------------------
\* the locks the caller holds after the first k calls of tr; -1 once a
\* release found no lock held
RECURSIVE Held(_, _)
Held(tr, k) ==
    IF k = 0 THEN 0
    ELSE LET h == Held(tr, k - 1)
         IN  IF h < 0 THEN h
             ELSE IF tr[k] = "lock" THEN h + 1
             ELSE IF tr[k] = "unlock" THEN h - 1
             ELSE h

\* no request is made while the caller holds the lock, no release without
\* the lock, and nothing is held at the end
Disciplined(tr) ==
    /\ \A k \in 1..Len(tr) :
          /\ Held(tr, k) >= 0
          /\ tr[k] \in {"lock", "fail"} => Held(tr, k - 1) = 0
    /\ Held(tr, Len(tr)) = 0

LockResults == [1..MaxLockCalls -> env.locks]

\* C39 (lock discipline): whatever md_lock_super returns, bitmap_update_sb,
\* write_page and write_sb_page called in any state request the cluster lock
\* only when the caller does not hold it, and release it once for every
\* request that obtained it, before they return.
C39_LockDiscipline ==
    \A lks \in LockResults :
        /\ Disciplined(UpdateSbLocks(flags, lks, 1))
        /\ \A p \in DOMAIN io :
              /\ Disciplined(WritePageLocks(flags, p, lks, 1))
              /\ Disciplined(WriteSbPageLocks(p, lks[1]))


\* ------------------------------------------------------------------------
\* C40: the references of the member traversal
\* ------------------------------------------------------------------------
\* C40 (balanced traversal): write_sb_page called for any storage page in
\* any state returns with the pending count of every member device as it
\* found it, whether it wrote to all members or left at bad_alignment.
C40_TraversalBalanced ==
    \A p \in DOMAIN io : \A lk \in env.locks :
        \A k \in DOMAIN mddev.rdevs : WriteSbPageRefs(p, lk)[k] = 0


====
